---- MODULE Spec2Model ----
(***************************************************************************)
(* A model of the VALD capture engine (src/scrape_vald.py): the accordion  *)
(* discovery wait, the modal capture, the metric-switch capture with its   *)
(* metric selection, the tile lookups, the modal opener, the per-athlete   *)
(* checklist, and the session, team loop and table walk of main; and of    *)
(* the request pacing of src/chatgpt_generate.py.  The browser and the API *)
(* are the environment: every call on them either succeeds or raises,      *)
(* chosen with \E in the action that makes the call.                       *)
(***************************************************************************)
EXTENDS Integers, Sequences, FiniteSets, TLC

VARIABLES
    \* ---- _wait_for_accordion_count_to_settle, run poll by poll ----
    dom,        \* the DOM's behaviour: the accordion count at every read
    reads,      \* number of reads of div.accordion made so far
    wait,       \* the loop's locals: elapsed, stable, prev, done, ret
    \* ---- take_screens_for_athlete ----
    pc,         \* position of the single thread of control
    step,       \* index into Checklist of the step in progress
    titleIdx,   \* index into the step's title candidates
    counters,   \* counters: defaultdict(int), prefix -> last index handed out
    files,      \* the athlete folder: set of <<prefix, index>> paths written
    attempted,  \* checklist steps attempted so far, in order
    outcome,    \* per checklist step: "none" | "ok" | "failed" (logged as warn)
    total,      \* the total the orchestrator last logged, -1 before any
    modal,      \* the modal's state: CLOSED | OPEN | CAPTURING | CLOSING
    env,        \* the browser of this run: the failures it may still inject
                \* (when capped), the most accordions and renders it shows
    \* ---- screenshot_modal_accordions ----
    disc,       \* what the discovery wait saw and returned
    mode,       \* "none" | "fallback" | "sections": the branch taken on cnt
    secI,       \* i of the for loop over range(total)
    took,       \* took
    skipped,    \* sections whose capture raised and was skipped
    \* ---- the call in progress (modal capture or card capture) ----
    shots,      \* files this call wrote, in order: <<index, content>>
    ret,        \* the call's return value, -1 when it has not returned
    raised,     \* the call raised
    \* ---- capture_humantrak_card ----
    labelIdx,   \* index into labels_to_capture of the label in progress
    attempt,    \* attempt of range(1, 4)
    dupTry,     \* attempt of range(max_dupe_retries + 1) in the screenshot
    seen_hashes,\* seen_hashes
    taken,      \* taken
    success,    \* success
    hist,       \* per-label history: retries run out, bounces, files written
    \* ---- select_metric_and_wait, run call by call ----
    sel,        \* the requested label, what the page does, the position
    \* ---- find_smartspeed_tile_by_title ----
    find,       \* the headings of the smartspeed tiles, the title, the result
    \* ---- main: the team loop ----
    walk,       \* the teams, the team filter of the page, the position
    \* ---- main: the table of one team, page by page ----
    table,      \* the pages of rows, processed_athletes, the position
    \* ---- main: the session ----
    sess,       \* AUTH_FILE, what the site does at login, the position
    \* ---- chatgpt_generate: RateLimiter and call_with_retries ----
    limiter,    \* the clock, the limiter's last call, the requests sent
    \* ---- open_modal_from_tile ----
    opener,     \* the click targets, the target in turn, the result
    \* ---- find_countermovement_jump_tile ----
    cmj,        \* the strategies, the scroll position, the result
    \* ---- src/src/scripts/scrape_vald.py: bounce_then_reselect ----
    bounce,     \* the labels, what the tile shows, the position
    \* ---- grok_generate: RateLimiter and call_grok ----
    grok,       \* the clock, the limiter's deque, the requests sent
    \* ---- src/src/main.py: Worker and the window that owns it ----
    worker,     \* the stage, the signals emitted, the stop flag, the button
    \* ---- cleanup_vald_images: the data root ----
    tree        \* the files and folders, the deletions made and reported

waitVars == <<dom, reads, wait>>
flowVars == <<pc, step, titleIdx, counters, files, attempted, outcome, total, modal,
              env>>
modalVars == <<disc, mode, secI, took, skipped>>
callVars == <<shots, ret, raised>>
cardVars == <<labelIdx, attempt, dupTry, seen_hashes, taken, success, hist>>
moreVars == <<table, sess, limiter, opener, cmj>>
lateVars == <<bounce, grok, worker, tree>>
sideVars == <<sel, find, walk, moreVars, lateVars>>
vars == <<waitVars, flowVars, modalVars, callVars, cardVars, sideVars>>

-----------------------------------------------------------------------------
(* Timing tunables, in milliseconds.                                       *)
ACCORDION_DISCOVERY_TIMEOUT == 30000
ACCORDION_STABLE_FOR_MS == 1500
ACCORDION_CHECK_INTERVAL == 250

(* The largest accordion count the modelled DOM shows.                     *)
MaxAcc == 2

(* Reads of the count the loop can make before max_wait_ms is used up, and *)
(* the consecutive unchanged reads that make up stable_for_ms.             *)
MaxPolls == ACCORDION_DISCOVERY_TIMEOUT \div ACCORDION_CHECK_INTERVAL
StablePolls == ACCORDION_STABLE_FOR_MS \div ACCORDION_CHECK_INTERVAL

-----------------------------------------------------------------------------
(* The DOM as the discovery wait sees it.  The count flaps between cyc[1]  *)
(* and cyc[2] (equal: constant) for the reads before holdFrom, holds at    *)
(* hold from then on, and is tail at the read made after the loop.         *)
HoldPoints ==
    {1, 2, 3, MaxPolls - StablePolls - 1, MaxPolls - StablePolls,
     MaxPolls - StablePolls + 1, MaxPolls, MaxPolls + 1}

DomBehaviours ==
    [cyc : (0..MaxAcc) \X (0..MaxAcc), holdFrom : HoldPoints,
     hold : 0..MaxAcc, tail : 0..MaxAcc]

(* md.locator("div.accordion").count() at the k-th read.                   *)
AccordionCount(d, k) ==
    IF k > MaxPolls THEN d.tail
    ELSE IF k >= d.holdFrom THEN d.hold
    ELSE d.cyc[((k - 1) % 2) + 1]

(* The DOM never changes: every read gives the same count.                 *)
DomConstant(d) == d.holdFrom = 1 /\ d.tail = d.hold

(* The locals at the top of _wait_for_accordion_count_to_settle.           *)
WaitInit == [elapsed |-> 0, stable |-> 0, prev |-> -1, done |-> FALSE, ret |-> -1,
             timedOut |-> FALSE]

(* A wait that takes any unchanged count, zero included, as stable.        *)
CountUnchangedAnyValue(cnt, prev) == cnt = prev

(* The unchanged-count test of the loop body.                              *)
CountUnchanged(cnt, prev) == cnt = prev /\ cnt > 0

(* One iteration of the while loop, with cnt the count it read.            *)
WaitPoll(w, cnt) ==
    IF CountUnchanged(cnt, w.prev)
    THEN IF w.stable + ACCORDION_CHECK_INTERVAL >= ACCORDION_STABLE_FOR_MS
         THEN [w EXCEPT !.stable = @ + ACCORDION_CHECK_INTERVAL,
                        !.done = TRUE, !.ret = cnt]
         ELSE [w EXCEPT !.stable = @ + ACCORDION_CHECK_INTERVAL,
                        !.elapsed = @ + ACCORDION_CHECK_INTERVAL]
    ELSE [w EXCEPT !.prev = cnt, !.stable = 0,
                   !.elapsed = @ + ACCORDION_CHECK_INTERVAL]

(* A wait that returns the count of its last poll instead of a fresh read. *)
TimeoutCountLastSeen(w, cnt) == w.prev

(* The value returned once the loop's condition fails.                     *)
TimeoutCount(w, cnt) == cnt

(* The return after the loop: one more read of the count.                  *)
WaitTimeout(w, cnt) ==
    [w EXCEPT !.done = TRUE, !.ret = TimeoutCount(w, cnt), !.timedOut = TRUE]

(* The loop's condition.                                                   *)
WaitLoops(w) == w.elapsed < ACCORDION_DISCOVERY_TIMEOUT

(* The wait's next step at read k against DOM behaviour d: a pass of the   *)
(* loop, or the return after it; nothing once it has returned.             *)
WaitStep(w, d, k) ==
    IF w.done THEN w
    ELSE IF WaitLoops(w) THEN WaitPoll(w, AccordionCount(d, k))
    ELSE WaitTimeout(w, AccordionCount(d, k))

(* The whole wait against d, from locals w at read k (four steps to a      *)
(* level of the recursion).                                                *)
RECURSIVE WaitRun(_, _, _)
WaitRun(w, d, k) ==
    IF w.done THEN w
    ELSE WaitRun(WaitStep(WaitStep(WaitStep(WaitStep(w, d, k), d, k + 1), d, k + 2),
                          d, k + 3), d, k + 4)

(* The first read at which the count starts a run of StablePolls + 1 equal *)
(* non-zero reads inside the loop, 0 when there is none.                   *)
StableRunAt(d, k) ==
    /\ AccordionCount(d, k) > 0
    /\ k + StablePolls <= MaxPolls
    /\ \A j \in k..(k + StablePolls) : AccordionCount(d, j) = AccordionCount(d, k)

FirstStableRun(d) ==
    IF \E k \in 1..MaxPolls : StableRunAt(d, k)
    THEN CHOOSE k \in 1..MaxPolls :
            StableRunAt(d, k) /\ \A j \in 1..(k - 1) : ~StableRunAt(d, j)
    ELSE 0

(* What a discovery wait against d saw and returned: the count returned,   *)
(* whether the loop ran out, the count of the first stable run (0: none)   *)
(* and the count read after the loop (-1 when the loop returned).          *)
Discovery(d) ==
    LET w == WaitRun(WaitInit, d, 1)
        k == FirstStableRun(d)
    IN  [ret |-> w.ret, timedOut |-> w.timedOut,
         stableAt |-> IF k = 0 THEN 0 ELSE AccordionCount(d, k),
         last |-> IF w.timedOut THEN AccordionCount(d, MaxPolls + 1) ELSE -1]

Discoveries == {Discovery(d) : d \in DomBehaviours}

NoDiscovery == [ret |-> -1, timedOut |-> FALSE, stableAt |-> 0, last |-> -1]

-----------------------------------------------------------------------------
(* The parts of the state a specification does not run stay at rest.       *)
NoDom == [cyc |-> <<0, 0>>, holdFrom |-> 1, hold |-> 0, tail |-> 0]

WaitIdle == dom = NoDom /\ reads = 0 /\ wait = WaitInit

Prefixes == {"Countermovement_Jump", "Nordic", "20yd_Sprint", "5-0-5_Drill",
             "Overhead_Squat", "Lunge", "Lunges"}

(* Per label: the times the screenshot ran out of retries on duplicates,   *)
(* the bounces begun, the bounces whose two selections both went through,  *)
(* and the files written.                                                  *)
NoHist == [exhausted |-> 0, bounces |-> 0, bounced |-> 0, wrote |-> 0]

(* The browser's failures: an action that lets a call raise (or a wait run *)
(* out) spends one of the failures left, when their number is capped.      *)
Browser(isCapped, n, a, h) ==
    [capped |-> isCapped, left |-> n, acc |-> a, hashes |-> h, athletes |-> 1]

(* The same browser with n athletes to capture, one after another.         *)
Roster(b, n) == [b EXCEPT !.athletes = n]

Env(isFault) ==
    /\ isFault => (~env.capped \/ env.left > 0)
    /\ env' = IF isFault /\ env.capped THEN [env EXCEPT !.left = @ - 1] ELSE env

FlowIdle ==
    /\ pc = "idle" /\ step = 0 /\ titleIdx = 0
    /\ counters = [p \in Prefixes |-> 0]
    /\ files = {} /\ attempted = <<>> /\ outcome = [k \in 1..6 |-> "none"]
    /\ total = -1
    /\ modal = "CLOSED" /\ env = Browser(TRUE, 0, 0, 0)

ModalIdle == disc = NoDiscovery /\ mode = "none" /\ secI = 0 /\ took = 0 /\ skipped = 0

CallIdle == shots = <<>> /\ ret = -1 /\ raised = FALSE

CardIdle ==
    /\ labelIdx = 0 /\ attempt = 0 /\ dupTry = 0 /\ seen_hashes = {}
    /\ taken = 0 /\ success = FALSE /\ hist = NoHist

(* No select_metric_and_wait, tile lookup or team loop in progress.        *)
NoSel == [pc |-> "idle", label |-> 0, shown |-> 0, takes |-> "never",
          menuOpens |-> FALSE, optionShown |-> FALSE, fpChanged |-> FALSE]

NoFind == [pc |-> "idle", tiles |-> <<>>, want |-> <<>>, result |-> 0]

NoWalk == [pc |-> "idle", teams |-> <<>>, idx |-> 0, multi |-> FALSE,
           filter |-> {}, rows |-> <<>>]

(* No table walk, session, rate limiter, opener or tile locator in         *)
(* progress.                                                               *)
NoTable == [pc |-> "idle"]
NoSess == [pc |-> "idle", auth |-> "none", stored_valid |-> FALSE, probe |-> "none",
           login |-> "none", writes |-> 0, captured |-> FALSE]
NoLimiter == [pc |-> "idle"]
NoOpener == [pc |-> "idle", inner |-> <<>>, heading |-> FALSE, sel |-> 0, k |-> 0,
             tried |-> <<>>, outs |-> <<>>, result |-> "none"]
NoCmj == [pc |-> "idle", matching |-> {}, pass |-> 0, step |-> 0, scrolls |-> 0,
          checks |-> <<>>, result |-> "none", raised |-> "none"]

MoreIdle ==
    /\ table = NoTable /\ sess = NoSess /\ limiter = NoLimiter
    /\ opener = NoOpener /\ cmj = NoCmj

(* No bounce, Grok call, GUI worker or cleanup in progress.                *)
NoBounce == [pc |-> "idle"]
NoGrok == [pc |-> "idle"]
NoWorker == [pc |-> "idle"]
NoTree == [pc |-> "idle"]

LateIdle ==
    /\ bounce = NoBounce /\ grok = NoGrok /\ worker = NoWorker /\ tree = NoTree

SideIdle == sel = NoSel /\ find = NoFind /\ walk = NoWalk /\ MoreIdle /\ LateIdle

-----------------------------------------------------------------------------
(* The discovery wait on its own, one read of the count per step.          *)
WaitStart ==
    /\ dom \in DomBehaviours /\ reads = 0 /\ wait = WaitInit
    /\ FlowIdle /\ ModalIdle /\ CallIdle /\ CardIdle /\ SideIdle

Poll ==
    /\ ~wait.done
    /\ WaitLoops(wait)
    /\ wait' = WaitPoll(wait, AccordionCount(dom, reads + 1))
    /\ reads' = reads + 1
    /\ UNCHANGED <<dom, flowVars, modalVars, callVars, cardVars, sideVars>>

PollTimeout ==
    /\ ~wait.done
    /\ ~WaitLoops(wait)
    /\ wait' = WaitTimeout(wait, AccordionCount(dom, reads + 1))
    /\ reads' = reads + 1
    /\ UNCHANGED <<dom, flowVars, modalVars, callVars, cardVars, sideVars>>

WaitNext == Poll \/ PollTimeout

SpecWait == WaitStart /\ [][WaitNext]_vars

-----------------------------------------------------------------------------
(* take_screens_for_athlete: the checklist, in the order of the code.      *)
Checklist == <<
    [name |-> "Countermovement Jump", kind |-> "modal",
     prefixes |-> <<"Countermovement_Jump">>],
    [name |-> "Nordic", kind |-> "modal", prefixes |-> <<"Nordic">>],
    [name |-> "20yd Sprint", kind |-> "modal", prefixes |-> <<"20yd_Sprint">>],
    [name |-> "5-0-5 Drill", kind |-> "modal", prefixes |-> <<"5-0-5_Drill">>],
    [name |-> "Overhead Squat", kind |-> "card", prefixes |-> <<"Overhead_Squat">>],
    [name |-> "Lunge", kind |-> "card", prefixes |-> <<"Lunge", "Lunges">>] >>

NumSteps == Len(Checklist)

(* ht_labels, by position.                                                 *)
NumLabels == 3

(* range(1, 4) of the per-label loop and max_dupe_retries.                 *)
MaxAttempts == 3
MaxDupeRetries == 2

(* The distinct renders (content hashes) the modelled tile can show.       *)
NumHashes == 3

(* prefix of the call in progress: the step's label, or                    *)
(* title.replace(" ", "_") of the title being tried.                       *)
Prefix == Checklist[step].prefixes[IF titleIdx = 0 THEN 1 ELSE titleIdx]

RECURSIVE SumOver(_, _)
SumOver(f, S) ==
    IF S = {} THEN 0
    ELSE LET x == CHOOSE y \in S : TRUE IN f[x] + SumOver(f, S \ {x})

(* sum(counters.values())                                                  *)
CountersTotal(c) == SumOver(c, DOMAIN c)

(* Counters that a call takes over from the call before it.               *)
CarriedCounters == counters

(* counters: defaultdict = defaultdict(int) and the athlete's folder.      *)
FreshCounters == [p \in Prefixes |-> 0]

StartAthlete ==
    /\ pc \in {"idle", "done", "aborted"}
    /\ env.athletes > 0
    /\ counters' = FreshCounters
    /\ files' = {}
    /\ attempted' = <<>>
    /\ outcome' = [k \in 1..NumSteps |-> "none"]
    /\ step' = 1
    /\ titleIdx' = 0
    /\ modal' = "CLOSED"
    /\ \E passes \in BOOLEAN :
          /\ ~passes => (~env.capped \/ env.left > 0)
          /\ env' = [env EXCEPT !.athletes = @ - 1,
                                !.left = IF ~passes /\ env.capped THEN @ - 1 ELSE @]
          /\ pc' = IF passes THEN "step_begin" ELSE "aborted"
    /\ disc' = NoDiscovery /\ mode' = "none" /\ secI' = 0 /\ took' = 0 /\ skipped' = 0
    /\ shots' = <<>> /\ ret' = -1 /\ raised' = FALSE
    /\ labelIdx' = 0 /\ attempt' = 0 /\ dupTry' = 0 /\ seen_hashes' = {}
    /\ taken' = 0 /\ success' = FALSE /\ hist' = NoHist
    /\ UNCHANGED <<total, waitVars, sideVars>>

(* A checklist whose step failure is raised out of the athlete's run.      *)
AfterStepFailureAbort == "aborted"

(* The except clause of a checklist step: log the warning, go on.          *)
AfterStepFailure == "step_end"

StepFails ==
    /\ outcome' = [outcome EXCEPT ![step] = "failed"]
    /\ pc' = AfterStepFailure

(* The same, reached by a raise out of the capture call of the step.       *)
CallRaises ==
    /\ StepFails
    /\ raised' = TRUE
    /\ UNCHANGED ret

(* try: log("FLOW", ...) of the next checklist entry.                      *)
BeginStep ==
    /\ pc = "step_begin"
    /\ attempted' = Append(attempted, step)
    /\ shots' = <<>> /\ ret' = -1 /\ raised' = FALSE
    /\ disc' = NoDiscovery /\ mode' = "none" /\ secI' = 0 /\ took' = 0 /\ skipped' = 0
    /\ labelIdx' = 0 /\ attempt' = 0 /\ dupTry' = 0 /\ seen_hashes' = {}
    /\ taken' = 0 /\ success' = FALSE /\ hist' = NoHist
    /\ IF Checklist[step].kind = "modal"
       THEN pc' = "open" /\ titleIdx' = 0
       ELSE pc' = "card_find" /\ titleIdx' = 1
    /\ UNCHANGED <<sideVars, waitVars, step, counters, files, outcome, total, modal, env>>

(* modal = opener(): the tile is found and a click opens the modal, or the *)
(* opener raises (tile absent, no click strategy opened a modal).          *)
OpenModal ==
    /\ pc = "open"
    /\ \E o \in {"opened", "tile_absent", "not_opened"} :
          /\ Env(o = "not_opened")
          /\ IF o = "opened"
             THEN /\ modal' = "OPEN"
                  /\ pc' = "discover"
                  /\ UNCHANGED outcome
             ELSE /\ StepFails
                  /\ UNCHANGED modal
    /\ UNCHANGED <<sideVars, waitVars, step, titleIdx, counters, files, attempted, total,
                   modalVars, callVars, cardVars>>

(* if cnt == 0: the whole-modal fallback.                                  *)
FallbackWhen(cnt) == cnt = 0

(* screenshot_modal_accordions up to the branch on cnt: the preload scroll *)
(* and the discovery wait, which raises when the page is gone.             *)
Discover ==
    /\ pc = "discover"
    /\ \E crash \in BOOLEAN, d \in {x \in Discoveries : x.ret <= env.acc} :
          /\ Env(crash)
          /\ IF crash
             THEN /\ CallRaises
                  /\ UNCHANGED <<disc, mode, modal>>
             ELSE /\ disc' = d
                  /\ modal' = "CAPTURING"
                  /\ mode' = IF FallbackWhen(d.ret) THEN "fallback" ELSE "sections"
                  /\ pc' = IF FallbackWhen(d.ret) THEN "fallback" ELSE "section"
                  /\ UNCHANGED <<outcome, ret, raised>>
    /\ UNCHANGED <<sideVars, waitVars, step, titleIdx, counters, files, attempted, total,
                   secI, took, skipped, shots, cardVars>>

(* A counter that hands out again the index it holds.                      *)
BumpNot(c, p) == c

(* counters[prefix] += 1                                                   *)
Bump(c, p) == [c EXCEPT ![p] = @ + 1]

(* The fallback branch: the visibility check, the counter, the screenshot  *)
(* and the write, none of them inside a try.                               *)
Fallback ==
    /\ pc = "fallback"
    /\ \E o \in {"not_visible", "shot_failed", "write_failed", "ok"} :
       /\ Env(o # "ok")
       /\ CASE o = "not_visible" ->
                 /\ CallRaises
                 /\ UNCHANGED <<counters, files, shots>>
            [] o \in {"shot_failed", "write_failed"} ->
                 /\ counters' = Bump(counters, Prefix)
                 /\ CallRaises
                 /\ UNCHANGED <<files, shots>>
            [] OTHER ->
                 /\ counters' = Bump(counters, Prefix)
                 /\ files' = files \cup {<<Prefix, counters'[Prefix]>>}
                 /\ shots' = Append(shots, <<counters'[Prefix], 0>>)
                 /\ ret' = 1
                 /\ pc' = "close"
                 /\ UNCHANGED <<outcome, raised>>
    /\ UNCHANGED <<sideVars, waitVars, step, titleIdx, attempted, total, modal, modalVars,
                   cardVars>>

(* A loop that stops one section short.                                    *)
MoreSectionsButLast(i, n) == i + 1 < n

(* for i in range(total)                                                   *)
MoreSections(i, n) == i < n

(* A loop that a failed section ends: no later section is tried.           *)
AfterSkipAbort(i, n) == n

(* except Exception as e: log the skip; the for loop goes on with i + 1.   *)
AfterSkip(i, n) == i + 1

(* A call that reports the sections it found instead of those it wrote.    *)
SectionsReturnTotal(tk, n) == n

(* return took                                                             *)
SectionsReturn(tk, n) == tk

(* One pass of for i in range(total): section i + 1 in DOM order.  The     *)
(* except clause logs the skip and the loop goes on.                       *)
Section ==
    /\ pc = "section"
    /\ MoreSections(secI, disc.ret)
    /\ \E o \in {"detached", "shot_failed", "write_failed", "ok"} :
       /\ Env(o # "ok")
       /\ CASE o = "detached" ->
                 /\ skipped' = skipped + 1
                 /\ secI' = AfterSkip(secI, disc.ret)
                 /\ UNCHANGED <<counters, files, shots, took>>
            [] o \in {"shot_failed", "write_failed"} ->
                 /\ counters' = Bump(counters, Prefix)
                 /\ skipped' = skipped + 1
                 /\ secI' = AfterSkip(secI, disc.ret)
                 /\ UNCHANGED <<files, shots, took>>
            [] OTHER ->
                 /\ counters' = Bump(counters, Prefix)
                 /\ files' = files \cup {<<Prefix, counters'[Prefix]>>}
                 /\ shots' = Append(shots, <<counters'[Prefix], secI + 1>>)
                 /\ took' = took + 1
                 /\ secI' = secI + 1
                 /\ UNCHANGED skipped
    /\ UNCHANGED <<sideVars, waitVars, pc, step, titleIdx, attempted, outcome, total, modal,
                   disc, mode, ret, raised, cardVars>>

(* return took                                                             *)
SectionsDone ==
    /\ pc = "section"
    /\ ~MoreSections(secI, disc.ret)
    /\ ret' = SectionsReturn(took, disc.ret)
    /\ pc' = "close"
    /\ UNCHANGED <<sideVars, waitVars, step, titleIdx, counters, files, attempted, outcome,
                   total, modal, env, modalVars, shots, raised, cardVars>>

(* close_modal up to the wait: the click on the close button or outside    *)
(* the modal, which is not inside a try.                                   *)
CloseModal ==
    /\ pc = "close"
    /\ modal' = "CLOSING"
    /\ \E clicked \in BOOLEAN :
          /\ Env(~clicked)
          /\ IF clicked
             THEN pc' = "close_wait" /\ UNCHANGED outcome
             ELSE StepFails
    /\ UNCHANGED <<sideVars, waitVars, step, titleIdx, counters, files, attempted, total,
                   modalVars, callVars, cardVars>>

(* expect(modal).not_to_be_visible: a timeout is logged and execution goes *)
(* on; the step then logs its count.                                       *)
CloseWait ==
    /\ pc = "close_wait"
    /\ \E closed \in BOOLEAN :
          /\ Env(~closed)
          /\ modal' = IF closed THEN "CLOSED" ELSE "CLOSING"
    /\ outcome' = [outcome EXCEPT ![step] = "ok"]
    /\ pc' = "step_end"
    /\ UNCHANGED <<sideVars, waitVars, step, titleIdx, counters, files, attempted, total,
                   modalVars, callVars, cardVars>>

(* The next entry of the checklist, or the closing log with the total.     *)
EndStep ==
    /\ pc = "step_end"
    /\ IF step < NumSteps
       THEN step' = step + 1 /\ pc' = "step_begin" /\ UNCHANGED total
       ELSE pc' = "done" /\ total' = CountersTotal(counters) /\ UNCHANGED step
    /\ UNCHANGED <<sideVars, waitVars, titleIdx, counters, files, attempted, outcome, modal,
                   env, modalVars, callVars, cardVars>>

-----------------------------------------------------------------------------
(* capture_humantrak_card and capture_humantrak_card_any.                  *)

(* A raise out of capture_humantrak_card: capture_humantrak_card_any goes  *)
(* on to the next title candidate, and re-raises after the last one.       *)
CardRaises ==
    IF titleIdx < Len(Checklist[step].prefixes)
    THEN /\ titleIdx' = titleIdx + 1
         /\ pc' = "card_find"
         /\ UNCHANGED <<outcome, ret, raised>>
    ELSE /\ CallRaises
         /\ UNCHANGED titleIdx

(* The tile lookup and expect(tile).to_be_visible, then the locals.        *)
CardFind ==
    /\ pc = "card_find"
    /\ \E visible \in BOOLEAN :
          IF visible
          THEN /\ pc' = "select"
               /\ labelIdx' = 1
               /\ UNCHANGED <<titleIdx, outcome, ret, raised>>
          ELSE /\ CardRaises
               /\ labelIdx' = 0
    /\ taken' = 0
    /\ seen_hashes' = {}
    /\ shots' = <<>>
    /\ attempt' = 1
    /\ dupTry' = 0
    /\ success' = FALSE
    /\ hist' = NoHist
    /\ UNCHANGED <<sideVars, waitVars, step, counters, files, attempted, total, modal, env,
                   modalVars>>

(* select_metric_and_wait raises unless the menu opens, the option is      *)
(* shown and the button's text comes to contain the label's token; the     *)
(* fingerprint wait only ends early on a change.                           *)
SelectRaises(menuOpens, optionShown, tokenShown, fpChanged) ==
    ~menuOpens \/ ~optionShown \/ ~tokenShown

SelectInputs == BOOLEAN \X BOOLEAN \X BOOLEAN \X BOOLEAN

(* A label loop of one pass more than range(1, 4).                         *)
NextAttemptOneMore ==
    IF attempt < MaxAttempts + 1
    THEN attempt' = attempt + 1 /\ pc' = "select"
    ELSE attempt' = attempt /\ pc' = "label_end"

(* The next pass of for attempt in range(1, 4), or the end of the label.   *)
NextAttempt ==
    IF attempt < MaxAttempts
    THEN attempt' = attempt + 1 /\ pc' = "select"
    ELSE attempt' = attempt /\ pc' = "label_end"

(* except Exception as e: log and page.wait_for_timeout(600), which raises *)
(* out of the call when the page is gone.                                  *)
AttemptFails ==
    \E pageGone \in BOOLEAN :
        IF pageGone
        THEN /\ CardRaises
             /\ UNCHANGED attempt
        ELSE /\ NextAttempt
             /\ UNCHANGED <<titleIdx, outcome, ret, raised>>

(* select_metric_and_wait(label) of an attempt.                            *)
Select ==
    /\ pc = "select"
    /\ \E in \in SelectInputs :
          /\ Env(SelectRaises(in[1], in[2], in[3], in[4]))
          /\ IF SelectRaises(in[1], in[2], in[3], in[4])
             THEN AttemptFails
             ELSE /\ pc' = "shot"
                  /\ UNCHANGED <<attempt, titleIdx, outcome, ret, raised>>
    /\ dupTry' = 0
    /\ UNCHANGED <<sideVars, waitVars, step, counters, files, attempted, total, modal,
                   modalVars, shots, labelIdx, seen_hashes, taken, success, hist>>

(* A screenshot that never finds its digest among those seen.             *)
IsDuplicateNever(digest, seen) == FALSE

(* if digest in seen_hashes                                                *)
IsDuplicate(digest, seen) == digest \in seen

(* alts = [x for x in labels_to_capture if x != label]                     *)
Alts(label) == SelectSeq([i \in 1..NumLabels |-> i], LAMBDA x : x # label)

(* A label loop that goes to its next attempt without a bounce.            *)
BounceNever(label) == FALSE

(* The branch taken when screenshot_tile_unique returned False.            *)
BounceNeeded(label) == Alts(label) # <<>>

(* A label loop without the break: a success selects the label again.      *)
AfterSuccessRetry == "select"

(* success = True; taken += 1; break                                       *)
AfterSuccess == "label_end"

(* One pass of the loop of screenshot_tile_unique on the tile, showing     *)
(* render h: a duplicate is retried, a new render is numbered and written. *)
Shot ==
    /\ pc = "shot"
    /\ \E o \in {"shot_failed", "write_failed", "ok"}, h \in 1..env.hashes :
       /\ Env(o = "shot_failed" \/ (o = "write_failed" /\ ~IsDuplicate(h, seen_hashes)))
       /\ CASE o = "shot_failed" ->
                 /\ AttemptFails
                 /\ UNCHANGED <<counters, files, shots, seen_hashes, taken, success,
                                hist, dupTry>>
            [] o # "shot_failed" /\ IsDuplicate(h, seen_hashes) ->
                 /\ IF dupTry < MaxDupeRetries
                    THEN /\ dupTry' = dupTry + 1
                         /\ UNCHANGED <<pc, attempt, hist>>
                    ELSE /\ hist' = [hist EXCEPT !.exhausted = @ + 1]
                         /\ UNCHANGED dupTry
                         /\ IF BounceNeeded(labelIdx)
                            THEN pc' = "bounce_alt" /\ UNCHANGED attempt
                            ELSE NextAttempt
                 /\ UNCHANGED <<counters, files, shots, seen_hashes, taken, success,
                                titleIdx, outcome, ret, raised>>
            [] o = "write_failed" /\ ~IsDuplicate(h, seen_hashes) ->
                 /\ counters' = Bump(counters, Prefix)
                 /\ AttemptFails
                 /\ UNCHANGED <<files, shots, seen_hashes, taken, success, hist, dupTry>>
            [] OTHER ->
                 /\ counters' = Bump(counters, Prefix)
                 /\ files' = files \cup {<<Prefix, counters'[Prefix]>>}
                 /\ shots' = Append(shots, <<counters'[Prefix], h>>)
                 /\ seen_hashes' = seen_hashes \cup {h}
                 /\ success' = TRUE
                 /\ taken' = taken + 1
                 /\ hist' = [hist EXCEPT !.wrote = @ + 1]
                 /\ pc' = AfterSuccess
                 /\ UNCHANGED <<attempt, dupTry, titleIdx, outcome, ret, raised>>
    /\ UNCHANGED <<sideVars, waitVars, step, attempted, total, modal, modalVars, labelIdx>>

(* The bounce: select_metric_and_wait(alts[0]); a raise is swallowed.      *)
BounceAlt ==
    /\ pc = "bounce_alt"
    /\ hist' = [hist EXCEPT !.bounces = @ + 1]
    /\ \E in \in SelectInputs :
          /\ Env(SelectRaises(in[1], in[2], in[3], in[4]))
          /\ IF SelectRaises(in[1], in[2], in[3], in[4])
             THEN NextAttempt
             ELSE pc' = "bounce_back" /\ UNCHANGED attempt
    /\ UNCHANGED <<sideVars, waitVars, step, titleIdx, counters, files, attempted, outcome,
                   total, modal, modalVars, callVars, labelIdx, dupTry, seen_hashes,
                   taken, success>>

(* The bounce: select_metric_and_wait(label) again; a raise is swallowed.  *)
BounceBack ==
    /\ pc = "bounce_back"
    /\ \E in \in SelectInputs :
          /\ Env(SelectRaises(in[1], in[2], in[3], in[4]))
          /\ hist' = IF SelectRaises(in[1], in[2], in[3], in[4]) THEN hist
                     ELSE [hist EXCEPT !.bounced = @ + 1]
    /\ NextAttempt
    /\ UNCHANGED <<sideVars, waitVars, step, titleIdx, counters, files, attempted, outcome,
                   total, modal, modalVars, callVars, labelIdx, dupTry, seen_hashes,
                   taken, success>>

(* if not success: log the skip; then the next label, or return taken.     *)
LabelEnd ==
    /\ pc = "label_end"
    /\ IF labelIdx < NumLabels
       THEN /\ labelIdx' = labelIdx + 1
            /\ attempt' = 1
            /\ success' = FALSE
            /\ hist' = NoHist
            /\ pc' = "select"
            /\ UNCHANGED <<ret, outcome>>
       ELSE /\ ret' = taken
            /\ outcome' = [outcome EXCEPT ![step] = "ok"]
            /\ pc' = "step_end"
            /\ UNCHANGED <<labelIdx, attempt, success, hist>>
    /\ UNCHANGED <<sideVars, waitVars, step, titleIdx, counters, files, attempted, total,
                   modal, env, modalVars, shots, raised, dupTry, seen_hashes, taken>>

-----------------------------------------------------------------------------
(* The state at position p of checklist step k when every earlier step    *)
(* found its tile absent: nothing counted, nothing written.                *)
AtStep(k, p, f) ==
    /\ pc = p /\ step = k
    /\ titleIdx = IF p = "card_find" THEN 1 ELSE 0
    /\ counters = [q \in Prefixes |-> 0]
    /\ files = {} /\ attempted = [i \in 1..k |-> i]
    /\ outcome = [i \in 1..NumSteps |-> IF i < k THEN "failed" ELSE "none"]
    /\ total = -1 /\ modal = "CLOSED" /\ env = f

(* One athlete after another, each through the whole checklist, against a *)
(* browser that fails at most once per run and shows fewer accordions and  *)
(* renders than the one a single step is run against.                      *)
FlowBrowser == Browser(TRUE, 1, MaxAcc - 1, NumHashes - 2)

Init ==
    /\ WaitIdle /\ AtStep(0, "idle", FlowBrowser)
    /\ ModalIdle /\ CallIdle /\ CardIdle /\ SideIdle

Next ==
    \/ StartAthlete
    \/ BeginStep
    \/ OpenModal
    \/ Discover
    \/ Fallback
    \/ Section
    \/ SectionsDone
    \/ CloseModal
    \/ CloseWait
    \/ CardFind
    \/ Select
    \/ Shot
    \/ BounceAlt
    \/ BounceBack
    \/ LabelEnd
    \/ EndStep

Spec == Init /\ [][Next]_vars

-----------------------------------------------------------------------------
(* One modal step of the checklist, from its opener to the next step, with *)
(* any number of failures.                                                 *)
ModalSteps == {k \in 1..NumSteps : Checklist[k].kind = "modal"}
CardSteps == {k \in 1..NumSteps : Checklist[k].kind = "card"}

ModalStart ==
    /\ WaitIdle /\ ModalIdle /\ CallIdle /\ CardIdle /\ SideIdle
    /\ \E k \in ModalSteps : AtStep(k, "open", Browser(FALSE, 0, MaxAcc, NumHashes))

ModalNext ==
    \/ OpenModal
    \/ Discover
    \/ Fallback
    \/ Section
    \/ SectionsDone
    \/ CloseModal
    \/ CloseWait
    \/ EndStep

SpecModal == ModalStart /\ [][ModalNext]_vars

(* One metric-switch step of the checklist, with up to CardFaults failures.*)
CardFaults == 3

CardStart ==
    /\ WaitIdle /\ ModalIdle /\ CallIdle /\ CardIdle /\ SideIdle
    /\ \E k \in CardSteps : AtStep(k, "card_find", Browser(TRUE, CardFaults, MaxAcc, NumHashes))

CardNext ==
    \/ CardFind
    \/ Select
    \/ Shot
    \/ BounceAlt
    \/ BounceBack
    \/ LabelEnd
    \/ EndStep

SpecCard == CardStart /\ [][CardNext]_vars

(* One card step against a browser that fails fewer calls and shows fewer  *)
(* renders, with the call scheduled as long as it has a step to take: it   *)
(* runs on the one thread of the scraper until it returns or raises.       *)
CardLiveStart ==
    /\ WaitIdle /\ ModalIdle /\ CallIdle /\ CardIdle /\ SideIdle
    /\ \E k \in CardSteps :
          AtStep(k, "card_find", Browser(TRUE, CardFaults - 2, MaxAcc, NumHashes - 1))

SpecCardLive == CardLiveStart /\ [][CardNext]_vars /\ WF_vars(CardNext)

(* MaxAthletes athletes captured one after another by the same process,    *)
(* as the row loop of main does, against a browser that fails at most once *)
(* and shows one accordion and one render.                                 *)
MaxAthletes == 2

AthletesBrowser == Roster(Browser(TRUE, 1, 1, 1), MaxAthletes)

AthletesStart ==
    /\ WaitIdle /\ AtStep(0, "idle", AthletesBrowser)
    /\ ModalIdle /\ CallIdle /\ CardIdle /\ SideIdle

SpecAthletes == AthletesStart /\ [][Next]_vars

-----------------------------------------------------------------------------
(* select_metric_and_wait on its own, one Playwright call per step, for    *)
(* every requested label and every way the page can answer.  Texts are     *)
(* sequences of words; the token test is containment, as in                *)
(* expect(span).to_contain_text(re.compile(re.escape(token), re.I)).       *)

(* ht_labels                                                               *)
HtLabels == <<
    <<"Avg", "Peak", "Knee", "Flexion", "-", "Left", "&", "Right">>,
    <<"Avg", "Hip", "Adduction", "at", "Peak", "Knee", "Flexion", "-", "Left",
      "&", "Right">>,
    <<"Avg", "Ankle", "Dorsiflexion", "at", "Peak", "Knee", "Flexion", "-",
      "Left", "&", "Right">> >>

(* token in text                                                           *)
Contains(text, tok) ==
    \E i \in 0..(Len(text) - Len(tok)) : SubSeq(text, i + 1, i + Len(tok)) = tok

(* token = ... : the chain of conditional expressions; label[:24] is taken *)
(* as the first four words, and is not reached for ht_labels.              *)
TokenFor(label) ==
    IF Contains(label, <<"Ankle", "Dorsiflexion">>)
    THEN <<"Ankle", "Dorsiflexion">>
    ELSE IF Contains(label, <<"Hip", "Adduction">>)
         THEN <<"Hip", "Adduction">>
         ELSE IF Contains(label, <<"Peak", "Knee", "Flexion">>)
              THEN <<"Peak", "Knee", "Flexion">>
              ELSE SubSeq(label, 1, IF Len(label) < 4 THEN Len(label) ELSE 4)

(* The text of span.truncate of the dropdown button: metric k of           *)
(* ht_labels, or for 0 a text that is none of them.                        *)
DisplayText(k) == IF k = 0 THEN <<"Select", "metric">> ELSE HtLabels[k]

(* expect(span).to_contain_text(token) while the button shows metric k.    *)
TextConfirms(label, k) == Contains(DisplayText(k), TokenFor(HtLabels[label]))

(* The calls: the button shows metric `shown`; the click on the option     *)
(* changes it to the requested label before the first check ("early"),     *)
(* before the second one ("late") or not at all ("never").                 *)
SelInputs ==
    [pc : {"menu"}, label : 1..NumLabels, shown : 0..NumLabels,
     takes : {"early", "late", "never"}, menuOpens : BOOLEAN,
     optionShown : BOOLEAN, fpChanged : BOOLEAN]

SelStart ==
    /\ sel \in SelInputs /\ find = NoFind /\ walk = NoWalk /\ MoreIdle
    /\ LateIdle /\ WaitIdle /\ FlowIdle /\ ModalIdle /\ CallIdle /\ CardIdle

SelUnchanged == UNCHANGED <<find, walk, moreVars, lateVars, waitVars,
                   flowVars, modalVars, callVars, cardVars>>

(* fp_before = _fingerprint(chart_before); menu = _open_metric_menu(tile)  *)
SelOpenMenu ==
    /\ sel.pc = "menu"
    /\ sel' = [sel EXCEPT !.pc = IF sel.menuOpens THEN "option" ELSE "raised"]
    /\ SelUnchanged

(* expect(option.first).to_be_visible; option.first.click(force=True)      *)
SelClickOption ==
    /\ sel.pc = "option"
    /\ sel' = IF sel.optionShown
              THEN [sel EXCEPT !.pc = "text",
                               !.shown = IF sel.takes = "early" THEN sel.label ELSE @]
              ELSE [sel EXCEPT !.pc = "raised"]
    /\ SelUnchanged

(* try: expect(span).to_contain_text(token, timeout=timeout_ms)            *)
(* except: page.wait_for_timeout(800)                                      *)
SelTextCheck ==
    /\ sel.pc = "text"
    /\ sel' = IF TextConfirms(sel.label, sel.shown)
              THEN [sel EXCEPT !.pc = "fp"]
              ELSE [sel EXCEPT !.pc = "text_again",
                               !.shown = IF sel.takes = "late" THEN sel.label ELSE @]
    /\ SelUnchanged

(* A selection that goes on to the fingerprint wait without the text.      *)
AfterTextTimeoutProceed == "fp"

(* expect(span).to_contain_text(token, timeout=3000) outside any try.      *)
AfterTextTimeout == "raised"

SelTextRecheck ==
    /\ sel.pc = "text_again"
    /\ sel' = [sel EXCEPT !.pc = IF TextConfirms(sel.label, sel.shown)
                                 THEN "fp" ELSE AfterTextTimeout]
    /\ SelUnchanged

(* A selection that raises when the chart never changes.                   *)
AfterFingerprintTimeoutRaise == "raised"

(* while time.time() < deadline: the loop just ends.                       *)
AfterFingerprintTimeout == "returned"

(* The fingerprint loop and page.wait_for_timeout(MENU_AFTER_SELECT).      *)
SelFingerprintWait ==
    /\ sel.pc = "fp"
    /\ sel' = [sel EXCEPT !.pc = IF sel.fpChanged THEN "returned"
                                 ELSE AfterFingerprintTimeout]
    /\ SelUnchanged

SelNext ==
    \/ SelOpenMenu
    \/ SelClickOption
    \/ SelTextCheck
    \/ SelTextRecheck
    \/ SelFingerprintWait

SpecSelect == SelStart /\ [][SelNext]_vars

-----------------------------------------------------------------------------
(* find_smartspeed_tile_by_title on its own, one loop per step, for every  *)
(* row of up to MaxTiles smartspeed tiles.  Headings are sequences of      *)
(* characters, so that the normalisation and the substring tests are those *)
(* of the code.                                                            *)
MaxTiles == 2

Sprint20yd == <<"2", "0", "y", "d", " ", "S", "p", "r", "i", "n", "t">>
Drill505 == <<"5", "-", "0", "-", "5", " ", "D", "r", "i", "l", "l">>
SprintSpaced == <<" ", "2", "0", "y", "d", " ", " ", "s", "p", "r", "i", "n", "t">>
Agility == <<"A", "g", "i", "l", "i", "t", "y">>
NoHeading == <<>>

(* Headings a smartspeed tile can carry, and the title hints of the        *)
(* checklist.                                                              *)
Headings == {Sprint20yd, Drill505, SprintSpaced, Agility, NoHeading}
TitleHints == {Sprint20yd, Drill505}

(* str.lower(), on the letters that occur.                                 *)
Lower(c) ==
    CASE c = "S" -> "s" [] c = "D" -> "d" [] c = "A" -> "a" [] OTHER -> c

LowerAll(t) == [i \in 1..Len(t) |-> Lower(t[i])]

(* re.sub(r"\s+", " ", t)                                                  *)
Collapse(t) ==
    LET kept == SelectSeq([i \in 1..Len(t) |-> i],
                          LAMBDA i : ~(t[i] = " " /\ i > 1 /\ t[i - 1] = " "))
    IN  [j \in 1..Len(kept) |-> t[kept[j]]]

(* str.strip()                                                             *)
Strip(t) ==
    LET inked == {i \in 1..Len(t) : t[i] # " "}
    IN  IF inked = {} THEN <<>>
        ELSE SubSeq(t, CHOOSE a \in inked : \A b \in inked : a <= b,
                       CHOOSE a \in inked : \A b \in inked : a >= b)

(* get_tile_heading_text: heading.inner_text().strip()                     *)
HeadingText(t) == Strip(t)

(* re.sub(r"\s+", " ", x).strip().lower()                                  *)
Normalize(t) == LowerAll(Strip(Collapse(t)))

(* if cur == want                                                          *)
ExactMatch(t, title) == Normalize(HeadingText(t)) = Normalize(title)

(* "sprint" in txt and "5-0-5" not in txt and "505" not in txt and         *)
(* ("20" in txt or "yd" in txt)                                            *)
LooksLikeSprint(t) ==
    LET txt == LowerAll(HeadingText(t))
    IN  /\ Contains(txt, <<"s", "p", "r", "i", "n", "t">>)
        /\ ~Contains(txt, <<"5", "-", "0", "-", "5">>)
        /\ ~Contains(txt, <<"5", "0", "5">>)
        /\ (Contains(txt, <<"2", "0">>) \/ Contains(txt, <<"y", "d">>))

(* "5-0-5" in txt or "505" in txt                                          *)
LooksLikeDrill(t) ==
    LET txt == LowerAll(HeadingText(t))
    IN  Contains(txt, <<"5", "-", "0", "-", "5">>) \/ Contains(txt, <<"5", "0", "5">>)

(* The first index of range(count) that passes the test of a loop.         *)
FirstOf(S) == CHOOSE i \in S : \A j \in S : i <= j

RECURSIVE TileRows(_)
TileRows(n) ==
    IF n = 0 THEN {<<>>}
    ELSE TileRows(n - 1) \cup
         {Append(r, h) : r \in {x \in TileRows(n - 1) : Len(x) = n - 1}, h \in Headings}

FindStart ==
    /\ find \in [pc : {"count"}, tiles : TileRows(MaxTiles), want : TitleHints,
                 result : {0}]
    /\ sel = NoSel /\ walk = NoWalk /\ MoreIdle
    /\ LateIdle /\ WaitIdle /\ FlowIdle /\ ModalIdle /\ CallIdle /\ CardIdle

FindUnchanged == UNCHANGED <<sel, walk, moreVars, lateVars, waitVars,
                   flowVars, modalVars, callVars, cardVars>>

(* The loop for i in range(count) with the given test: the first tile     *)
(* that passes is returned, and with none the next loop runs.              *)
FindLoop(matches, next) ==
    IF matches = {}
    THEN [find EXCEPT !.pc = next]
    ELSE [find EXCEPT !.pc = "found", !.result = FirstOf(matches)]

(* count = tiles.count(); if count == 0: raise RuntimeError                *)
FindCount ==
    /\ find.pc = "count"
    /\ find' = [find EXCEPT !.pc = IF Len(find.tiles) = 0 THEN "raised" ELSE "exact"]
    /\ FindUnchanged

FindExact ==
    /\ find.pc = "exact"
    /\ find' = FindLoop({i \in 1..Len(find.tiles) :
                            ExactMatch(find.tiles[i], find.want)}, "sprint")
    /\ FindUnchanged

FindSprintHeuristic ==
    /\ find.pc = "sprint"
    /\ find' = FindLoop({i \in 1..Len(find.tiles) : LooksLikeSprint(find.tiles[i])},
                        "drill")
    /\ FindUnchanged

FindDrillHeuristic ==
    /\ find.pc = "drill"
    /\ find' = FindLoop({i \in 1..Len(find.tiles) : LooksLikeDrill(find.tiles[i])},
                        "first")
    /\ FindUnchanged

(* return tiles.first                                                      *)
FindFirst ==
    /\ find.pc = "first"
    /\ find' = [find EXCEPT !.pc = "found", !.result = 1]
    /\ FindUnchanged

FindNext ==
    \/ FindCount
    \/ FindExact
    \/ FindSprintHeuristic
    \/ FindDrillHeuristic
    \/ FindFirst

SpecFind == FindStart /\ [][FindNext]_vars

-----------------------------------------------------------------------------
(* main: the loop over the teams, with the team filter of the profiles     *)
(* page as the set of teams it holds.  The control is a multi-select       *)
(* (selecting adds a chip, each chip has a remove button) or a             *)
(* single-select (selecting replaces the value).                           *)
MaxTeams == 2

TeamNames == {"Team A", "Team B", "Team C"}

RECURSIVE TeamLists(_)
TeamLists(n) ==
    IF n = 0 THEN {<<>>}
    ELSE TeamLists(n - 1) \cup
         {Append(l, t) : l \in {x \in TeamLists(n - 1) : Len(x) = n - 1},
                         t \in TeamNames}

Distinct(l) == \A i, j \in 1..Len(l) : i # j => l[i] # l[j]

(* The team loop at its first pass, for every list of teams and both       *)
(* kinds of filter control.                                                *)
WalkInputs ==
    [pc : {"team_begin"},
     teams : {l \in TeamLists(MaxTeams) : Len(l) > 0 /\ Distinct(l)},
     idx : {1}, multi : BOOLEAN, filter : {{}}, rows : {<<>>}]

WalkStart ==
    /\ walk \in WalkInputs
    /\ sel = NoSel /\ find = NoFind /\ MoreIdle
    /\ LateIdle /\ WaitIdle /\ FlowIdle /\ ModalIdle /\ CallIdle /\ CardIdle

WalkUnchanged == UNCHANGED <<sel, find, moreVars, lateVars, waitVars,
                   flowVars, modalVars, callVars, cardVars>>

(* team_name of the pass of the loop in progress.                          *)
Team == walk.teams[walk.idx]

(* A team loop that takes the failure of a switch and goes on to the end   *)
(* of the team's pass.                                                     *)
AfterSwitchFailureGoOn == "clear_cross"

(* The calls that switch the filter to the team are not inside a try of    *)
(* the loop: a raise out of one goes to the except of main.                *)
AfterSwitchFailure == "top_error"

(* ensure_profiles_page(page); open_groups_dropdown(page)                  *)
WalkOpenGroups ==
    /\ walk.pc = "team_begin"
    /\ \E opens \in BOOLEAN :
          walk' = [walk EXCEPT !.pc = IF opens THEN "clear_groups"
                                      ELSE AfterSwitchFailure]
    /\ WalkUnchanged

(* clear_all_selected_groups: click the remove button of each chip until   *)
(* none is left; a click that raises ends the loop, silently.  A           *)
(* single-select has no such buttons.                                      *)
WalkClearGroups ==
    /\ walk.pc = "clear_groups"
    /\ \E kept \in SUBSET walk.filter :
          /\ ~walk.multi => kept = walk.filter
          /\ walk' = [walk EXCEPT !.pc = "reopen", !.filter = kept]
    /\ WalkUnchanged

(* open_groups_dropdown(page) of set_filter_to_single_team.                *)
WalkReopenGroups ==
    /\ walk.pc = "reopen"
    /\ \E opens \in BOOLEAN :
          walk' = [walk EXCEPT !.pc = IF opens THEN "select_team"
                                      ELSE AfterSwitchFailure]
    /\ WalkUnchanged

(* The filter once the option of team t has been clicked.                  *)
Selected(f, t, isMulti) == IF isMulti THEN f \cup {t} ELSE {t}

(* select_group_option_exact(page, team_name), the click on the body and   *)
(* the wait for the network.                                               *)
WalkSelectTeam ==
    /\ walk.pc = "select_team"
    /\ \E found \in BOOLEAN, settles \in BOOLEAN :
          walk' = IF ~found
                  THEN [walk EXCEPT !.pc = AfterSwitchFailure]
                  ELSE [walk EXCEPT !.filter = Selected(@, Team, walk.multi),
                                    !.pc = IF settles THEN "rows"
                                           ELSE AfterSwitchFailure]
    /\ WalkUnchanged

(* The pages of table rows of the team: rows is the filter under which     *)
(* they were read.  A raise outside the per-athlete try ends main.         *)
WalkReadRows ==
    /\ walk.pc = "rows"
    /\ \E ok \in BOOLEAN :
          walk' = [walk EXCEPT !.rows = Append(@, <<Team, walk.filter>>),
                               !.pc = IF ok THEN "clear_cross" ELSE "top_error"]
    /\ WalkUnchanged

(* clear_selected_team_via_cross inside try/except: without the control or *)
(* its clear indicator, or when both clicks raise, nothing is cleared.     *)
WalkClearCross ==
    /\ walk.pc = "clear_cross"
    /\ \E o \in {"cleared", "no_control", "no_indicator", "click_failed", "raised"} :
          walk' = [walk EXCEPT
                      !.filter = IF o = "cleared" THEN {} ELSE @,
                      !.idx = IF walk.idx < Len(walk.teams) THEN @ + 1 ELSE @,
                      !.pc = IF walk.idx < Len(walk.teams) THEN "team_begin"
                             ELSE "done"]
    /\ WalkUnchanged

WalkNext ==
    \/ WalkOpenGroups
    \/ WalkClearGroups
    \/ WalkReopenGroups
    \/ WalkSelectTeam
    \/ WalkReadRows
    \/ WalkClearCross

SpecWalk == WalkStart /\ [][WalkNext]_vars

(* The same loop, scheduled as long as it has a step to take: main runs on *)
(* the one thread of the scraper until it returns.                         *)
SpecWalkLive == WalkStart /\ [][WalkNext]_vars /\ WF_vars(WalkNext)

-----------------------------------------------------------------------------
(* main: the table of one team, page by page (the while True of the team   *)
(* loop).  The table is up to MaxRows rows cut into pages; the next-page   *)
(* control is enabled on every page but the last.  A cell text is a        *)
(* sequence of characters, so that the digit test and sanitize_filename    *)
(* are those of the code.                                                  *)
MaxRows == 3

CellTexts == {<<"A", "l">>, <<"A", "/", "l">>, <<" ", "B", "o">>, <<"B", "o", "7">>}

Digits == {"0", "1", "2", "3", "4", "5", "6", "7", "8", "9"}

(* The characters of [\\/*?:"<>|]                                          *)
Forbidden == {"\\", "/", "*", "?", ":", "\"", "<", ">", "|"}

(* re.search(r"\d", profile_name)                                          *)
HasDigitNever(name) == FALSE

HasDigit(name) == \E i \in 1..Len(name) : name[i] \in Digits

(* sanitize_filename: line ends to spaces, the forbidden characters        *)
(* dropped, runs of whitespace to one space, strip.                        *)
sanitize_filename(name) ==
    LET spaced == [i \in 1..Len(name) |->
                      IF name[i] \in {"\n", "\r"} THEN " " ELSE name[i]]
        kept == SelectSeq(spaced, LAMBDA c : c \notin Forbidden)
    IN  Strip(Collapse(kept))

(* if safe in processed_athletes                                           *)
AlreadyProcessedNever(safe, done) == FALSE

AlreadyProcessed(safe, done) == safe \in done

(* if not next_btn.is_enabled(): break                                     *)
LastPageReachedAlways(enabled) == TRUE

LastPageReached(enabled) == ~enabled

(* Where the row loop goes after the except of the per-athlete try.        *)
AfterCaptureErrorStop == "top_error"

AfterCaptureError == "back"

RECURSIVE RowLists(_)
RowLists(n) ==
    IF n = 0 THEN {<<>>}
    ELSE RowLists(n - 1) \cup
         {Append(r, c) : r \in {x \in RowLists(n - 1) : Len(x) = n - 1}, c \in CellTexts}

(* The rows cut into pages: cut is the set of the rows that end a page     *)
(* (the last row always does); a table without rows is one empty page.     *)
RECURSIVE PagesOf(_, _, _)
PagesOf(rows, cut, from) ==
    IF from > Len(rows) THEN <<>>
    ELSE LET to == CHOOSE e \in cut : e >= from /\ \A f \in cut : f >= from => e <= f
         IN  <<SubSeq(rows, from, to)>> \o PagesOf(rows, cut, to + 1)

TablesUpTo(n) ==
    {IF Len(rows) = 0 THEN <<<<>>>>
     ELSE PagesOf(rows, (cut \cap (1..Len(rows))) \cup {Len(rows)}, 1) :
        rows \in RowLists(n), cut \in SUBSET (1..n)}

Tables == TablesUpTo(MaxRows)

TableInputs(tables) ==
    [pc : {"page"}, pages : tables, page : {1}, nrows : {0}, i : {0},
     processed_athletes : {{}}, visited : {<<>>}, looked : {<<>>}, skips : {<<>>},
     opened : {<<>>}, calls : {<<>>}]

TableIdleElsewhere ==
    /\ sel = NoSel /\ find = NoFind /\ walk = NoWalk
    /\ sess = NoSess /\ limiter = NoLimiter /\ opener = NoOpener /\ cmj = NoCmj
    /\ LateIdle /\ WaitIdle /\ FlowIdle /\ ModalIdle /\ CallIdle /\ CardIdle

TableStart == table \in TableInputs(Tables) /\ TableIdleElsewhere

(* The walk of a table of one row less.                                    *)
TableLiveStart == table \in TableInputs(TablesUpTo(MaxRows - 1)) /\ TableIdleElsewhere

TableUnchanged ==
    UNCHANGED <<sel, find, walk, sess, limiter, opener, cmj, lateVars, waitVars,
                flowVars, modalVars, callVars, cardVars>>

(* The cell text of the row in turn, and profile_name.                     *)
CellText == table.pages[table.page][table.i + 1]
profile_name == Strip(CellText)

(* rows = page.locator("tbody tr"); nrows = rows.count()                   *)
TableCount ==
    /\ table.pc = "page"
    /\ \E counted \in BOOLEAN :
          table' = IF ~counted THEN [table EXCEPT !.pc = "top_error"]
                   ELSE [table EXCEPT !.pc = "row", !.i = 0,
                                      !.nrows = Len(table.pages[table.page]),
                                      !.visited = Append(@, table.page)]
    /\ TableUnchanged

(* One pass of for i in range(nrows) up to a continue or to the opening    *)
(* of the overview: the name is read (a raise skips the row), a name with  *)
(* a digit is skipped, a name already processed is skipped.                *)
TableRow ==
    /\ table.pc = "row" /\ table.i < table.nrows
    /\ \E readable \in BOOLEAN :
          LET verdict ==
                  IF ~readable THEN "unreadable"
                  ELSE IF HasDigit(profile_name) THEN "test_profile"
                  ELSE IF AlreadyProcessed(sanitize_filename(profile_name),
                                           table.processed_athletes)
                       THEN "already_processed"
                  ELSE "start"
          IN  table' = [table EXCEPT
                           !.looked = Append(@, <<table.page, table.i>>),
                           !.skips = IF verdict = "start" THEN @
                                     ELSE Append(@, verdict),
                           !.pc = IF verdict = "start" THEN "open" ELSE "row",
                           !.i = IF verdict = "start" THEN @ ELSE @ + 1]
    /\ TableUnchanged

(* out_dir.mkdir; the click on the initials cell; the wait for the         *)
(* overview URL; none of them inside a try.                                *)
TableOpenOverview ==
    /\ table.pc = "open"
    /\ \E o \in {"mkdir_raised", "click_raised", "url_timeout", "opened"} :
          table' = [table EXCEPT
                       !.opened = IF o \in {"url_timeout", "opened"}
                                  THEN Append(@, profile_name) ELSE @,
                       !.pc = IF o = "opened" THEN "capture" ELSE "top_error"]
    /\ TableUnchanged

(* try: take_screens_for_athlete(...); processed_athletes.add(safe)        *)
(* except Exception: log                                                   *)
TableCapture ==
    /\ table.pc = "capture"
    /\ \E returns \in BOOLEAN :
          LET safe == sanitize_filename(profile_name)
          IN  table' = [table EXCEPT
                           !.calls = Append(@, [name |-> profile_name, safe |-> safe,
                                                ok |-> returns,
                                                at |-> <<table.page, table.i>>]),
                           !.processed_athletes = IF returns THEN @ \cup {safe} ELSE @,
                           !.pc = IF returns THEN "back" ELSE AfterCaptureError]
    /\ TableUnchanged

(* page.go_back(); ensure_profiles_page(page), then the next row.          *)
TableBack ==
    /\ table.pc = "back"
    /\ \E arrived \in BOOLEAN :
          table' = IF arrived THEN [table EXCEPT !.pc = "row", !.i = @ + 1]
                   ELSE [table EXCEPT !.pc = "top_error"]
    /\ TableUnchanged

(* The next-page control of the page shown.                                *)
NextEnabled == table.page < Len(table.pages)

(* The row loop is over and the control is disabled: break.                *)
TableLastPage ==
    /\ table.pc = "row" /\ table.i >= table.nrows
    /\ \E readable \in BOOLEAN :
          /\ readable => LastPageReached(NextEnabled)
          /\ table' = [table EXCEPT !.pc = IF readable THEN "done" ELSE "top_error"]
    /\ TableUnchanged

(* The control is enabled: next_btn.click(), the wait for the network,     *)
(* reset_zoom.                                                             *)
TableNextPage ==
    /\ table.pc = "row" /\ table.i >= table.nrows
    /\ ~LastPageReached(NextEnabled)
    /\ \E o \in {"click_raised", "load_timeout", "loaded"} :
          table' = [table EXCEPT
                       !.page = IF o = "click_raised" THEN @ ELSE @ + 1,
                       !.pc = IF o = "loaded" THEN "page" ELSE "top_error"]
    /\ TableUnchanged

TableNext ==
    \/ TableCount
    \/ TableRow
    \/ TableOpenOverview
    \/ TableCapture
    \/ TableBack
    \/ TableLastPage
    \/ TableNextPage

SpecTable == TableStart /\ [][TableNext]_vars

(* The walk of the smaller tables, with the walker scheduled as long as it *)
(* has a step to take: main is one thread that runs until it returns or    *)
(* raises.                                                                 *)
SpecTableLive == TableLiveStart /\ [][TableNext]_vars /\ WF_vars(TableNext)

-----------------------------------------------------------------------------
(* main from the launch of the browser to the team loop: the session.      *)
(* auth is AUTH_FILE: "none" (no file), "old" (the file found at start)    *)
(* or "new" (written by this run).  stored_valid is whether the site       *)
(* still accepts the stored session.                                       *)
NoAuth == "none"

SessStart ==
    /\ sess \in [pc : {"launch"}, auth : {NoAuth, "old"}, stored_valid : BOOLEAN,
                 probe : {"none"}, login : {"none"}, writes : {0},
                 captured : {FALSE}]
    /\ sel = NoSel /\ find = NoFind /\ walk = NoWalk
    /\ table = NoTable /\ limiter = NoLimiter /\ opener = NoOpener /\ cmj = NoCmj
    /\ LateIdle /\ WaitIdle /\ FlowIdle /\ ModalIdle /\ CallIdle /\ CardIdle

SessUnchanged ==
    UNCHANGED <<sel, find, walk, table, limiter, opener, cmj, lateVars, waitVars,
                flowVars, modalVars, callVars, cardVars>>

(* A raise that nothing catches before the except of main.                 *)
TopError(s) == [s EXCEPT !.pc = "top_error"]

(* browser = p.chromium.launch(...)                                        *)
SessLaunch ==
    /\ sess.pc = "launch"
    /\ \E launched \in BOOLEAN :
          sess' = IF launched THEN [sess EXCEPT !.pc = "exists"] ELSE TopError(sess)
    /\ SessUnchanged

(* if os.path.exists(AUTH_FILE): the context from the stored state, the    *)
(* page, page.goto(BASE_URL).                                              *)
SessLoadState ==
    /\ sess.pc = "exists" /\ sess.auth # NoAuth
    /\ \E loaded \in BOOLEAN :
          sess' = IF loaded THEN [sess EXCEPT !.pc = "probe"] ELSE TopError(sess)
    /\ SessUnchanged

(* else: a fresh context and page.                                         *)
SessFreshContext ==
    /\ sess.pc = "exists" /\ sess.auth = NoAuth
    /\ \E made \in BOOLEAN :
          sess' = IF made THEN [sess EXCEPT !.pc = "login_goto"] ELSE TopError(sess)
    /\ SessUnchanged

(* try: expect(profiles link).to_be_visible(15 s) / except Exception.  The *)
(* link shows only for a session the site accepts.                         *)
SessProbe ==
    /\ sess.pc = "probe"
    /\ \E visible \in BOOLEAN :
          /\ visible => sess.stored_valid
          /\ sess' = IF visible THEN [sess EXCEPT !.probe = "valid", !.pc = "profiles"]
                     ELSE [sess EXCEPT !.probe = "invalid", !.pc = "drop"]
    /\ SessUnchanged

(* AUTH_FILE once os.remove(AUTH_FILE) has run.                            *)
RemovedKept(auth) == auth

Removed(auth) == NoAuth

(* context.close(); os.remove(AUTH_FILE); a fresh context and page.        *)
SessDropState ==
    /\ sess.pc = "drop"
    /\ \E o \in {"close_raised", "remove_raised", "context_raised", "dropped"} :
          sess' = [sess EXCEPT
                      !.auth = IF o \in {"context_raised", "dropped"}
                               THEN Removed(@) ELSE @,
                      !.pc = IF o = "dropped" THEN "login_goto" ELSE "top_error"]
    /\ SessUnchanged

(* perform_login: page.goto(BASE_URL) and the cookie banner, whose except  *)
(* takes a timeout only.                                                   *)
SessLoginGoto ==
    /\ sess.pc = "login_goto"
    /\ \E o \in {"goto_raised", "banner_raised", "through"} :
          sess' = IF o = "through" THEN [sess EXCEPT !.pc = "login_email"]
                  ELSE [sess EXCEPT !.login = "raised", !.pc = "top_error"]
    /\ SessUnchanged

(* Where main goes when perform_login returned False: return.              *)
AfterLoginFailedGoOn == "profiles"

AfterLoginFailed == "returned"

(* The email step: any exception returns False.                            *)
SessLoginEmail ==
    /\ sess.pc = "login_email"
    /\ \E submitted \in BOOLEAN :
          sess' = IF submitted THEN [sess EXCEPT !.pc = "login_password"]
                  ELSE [sess EXCEPT !.login = "false", !.pc = AfterLoginFailed]
    /\ SessUnchanged

(* The password step: any exception returns False.                         *)
SessLoginPassword ==
    /\ sess.pc = "login_password"
    /\ \E submitted \in BOOLEAN :
          sess' = IF submitted THEN [sess EXCEPT !.pc = "login_profiles"]
                  ELSE [sess EXCEPT !.login = "false", !.pc = AfterLoginFailed]
    /\ SessUnchanged

(* expect(profiles link).to_be_visible(30 s): True when it shows; when it  *)
(* does not, expect raises an AssertionError, and the except is for        *)
(* PlaywrightTimeoutError: the call returns False if the failure is taken  *)
(* by the except and raises if it is not.                                  *)
SessLoginProfiles ==
    /\ sess.pc = "login_profiles"
    /\ \E o \in {"true", "false", "raised"} :
          sess' = [sess EXCEPT
                      !.login = o,
                      !.pc = CASE o = "true" -> "save"
                               [] o = "false" -> AfterLoginFailed
                               [] OTHER -> "top_error"]
    /\ SessUnchanged

(* context.storage_state(path=AUTH_FILE)                                   *)
SessSaveState ==
    /\ sess.pc = "save"
    /\ \E written \in BOOLEAN :
          sess' = IF written
                  THEN [sess EXCEPT !.auth = "new", !.writes = @ + 1, !.pc = "profiles"]
                  ELSE TopError(sess)
    /\ SessUnchanged

(* ensure_profiles_page(page)                                              *)
SessProfiles ==
    /\ sess.pc = "profiles"
    /\ \E arrived \in BOOLEAN :
          sess' = IF arrived THEN [sess EXCEPT !.pc = "prompt"] ELSE TopError(sess)
    /\ SessUnchanged

(* prompt_team_mode() answered "single": scrape_single_profile, return.    *)
SessSingle ==
    /\ sess.pc = "prompt"
    /\ \E o \in {"raised", "not_found", "captured"} :
          sess' = [sess EXCEPT !.captured = (o = "captured"),
                               !.pc = IF o = "raised" THEN "top_error" ELSE "returned"]
    /\ SessUnchanged

(* prompt_team_mode() answered with a prefix or a list: the teams are      *)
(* resolved and the team loop starts; without teams it has no pass.        *)
SessTeams ==
    /\ sess.pc = "prompt"
    /\ \E resolved \in BOOLEAN :
          IF ~resolved THEN sess' = TopError(sess) /\ walk' = walk
          ELSE \/ sess' = [sess EXCEPT !.pc = "teams"] /\ walk' \in WalkInputs
               \/ sess' = [sess EXCEPT !.pc = "done"] /\ walk' = walk
    /\ UNCHANGED <<sel, find, table, limiter, opener, cmj, lateVars, waitVars,
                   flowVars, modalVars, callVars, cardVars>>

MainNext ==
    \/ SessLaunch
    \/ SessLoadState
    \/ SessFreshContext
    \/ SessProbe
    \/ SessDropState
    \/ SessLoginGoto
    \/ SessLoginEmail
    \/ SessLoginPassword
    \/ SessLoginProfiles
    \/ SessSaveState
    \/ SessProfiles
    \/ SessSingle
    \/ SessTeams
    \/ WalkOpenGroups
    \/ WalkClearGroups
    \/ WalkReopenGroups
    \/ WalkSelectTeam
    \/ WalkReadRows
    \/ WalkClearCross

SpecMain == SessStart /\ [][MainNext]_vars

-----------------------------------------------------------------------------
(* chatgpt_generate: RateLimiter and call_with_retries, for MaxCalls calls *)
(* in a row (one per athlete folder) against an API that fails up to       *)
(* LimiterFaults requests.  The clock is in ticks of half a second, for    *)
(* the 0.5 s of wait_for_slot; a uniform draw is either end of its range.  *)
RATE_LIMIT_RPM == 1
WINDOW == 60
MAX_RETRIES == 5
BACKOFF_BASE == 8
SAFE_PACE_SECONDS == 70

MaxCalls == 2
LimiterFaults == 2

Ticks(seconds) == 2 * seconds

(* random.uniform(5, 12), random.uniform(1.0, 4.0), random.uniform(1.0,    *)
(* 3.0), the Retry-After header of a 429, and the time a request takes: in *)
(* a steady run every draw gives its least value, the header is absent and *)
(* a request takes no time; otherwise each may also take its greatest.     *)
Draws(least, greatest) == IF limiter.steady THEN {least} ELSE {least, greatest}

PadJitter == Draws(Ticks(5), Ticks(12))
NetJitter == Draws(Ticks(1), Ticks(4))
UnknownJitter == Draws(Ticks(1), Ticks(3))
RetryAfter == Draws(0, Ticks(100))
RequestTime == Draws(0, Ticks(2))

Max(a, b) == IF a >= b THEN a ELSE b

(* BACKOFF_BASE * (2 ** (attempts - 1))                                    *)
Backoff(attempts) == Ticks(BACKOFF_BASE) * 2 ^ (attempts - 1)

(* while self.calls and now - self.calls[0] > self.window: popleft()       *)
RECURSIVE Purge(_, _)
Purge(calls, now) ==
    IF Len(calls) > 0 /\ now - calls[1] > Ticks(WINDOW)
    THEN Purge(Tail(calls), now) ELSE calls

(* to_sleep of wait_for_slot, zero when there is a slot.                   *)
ToSleep(calls, now) ==
    IF Len(calls) >= RATE_LIMIT_RPM
    THEN Max(0, Ticks(WINDOW) - (now - calls[1]) + 1)
    ELSE 0

(* The requests' outcomes: a completion with or without content, and the   *)
(* exceptions call_with_retries tells apart.                               *)
Replies == {"content", "empty"}
Failures == {"rate_limit", "connection", "server", "client", "unknown"}

LimiterStart ==
    /\ limiter = [pc |-> "loop", now |-> 0, calls |-> <<>>, sent |-> <<>>,
                  attempts |-> 0, kind |-> "none", ncall |-> 1,
                  left |-> LimiterFaults, steady |-> FALSE, results |-> <<>>]
    /\ sel = NoSel /\ find = NoFind /\ walk = NoWalk
    /\ table = NoTable /\ sess = NoSess /\ opener = NoOpener /\ cmj = NoCmj
    /\ LateIdle /\ WaitIdle /\ FlowIdle /\ ModalIdle /\ CallIdle /\ CardIdle

LimiterUnchanged ==
    UNCHANGED <<sel, find, walk, table, sess, opener, cmj, lateVars, waitVars,
                flowVars, modalVars, callVars, cardVars>>

(* A loop that makes one attempt more.                                     *)
MoreAttemptsOneMore(attempts) == attempts <= MAX_RETRIES

(* while attempts < MAX_RETRIES                                            *)
MoreAttempts(attempts) == attempts < MAX_RETRIES

(* while attempts < MAX_RETRIES: attempts += 1; after the loop, raise      *)
(* RuntimeError.                                                           *)
LimLoop ==
    /\ limiter.pc = "loop"
    /\ limiter' = IF MoreAttempts(limiter.attempts)
                  THEN [limiter EXCEPT !.attempts = @ + 1, !.pc = "wait_for_slot"]
                  ELSE [limiter EXCEPT !.pc = "ended",
                                       !.results = Append(@, "failed")]
    /\ LimiterUnchanged

(* rl.wait_for_slot()                                                      *)
LimWaitForSlot ==
    /\ limiter.pc = "wait_for_slot"
    /\ LET kept == Purge(limiter.calls, limiter.now)
       IN  limiter' = [limiter EXCEPT !.calls = kept,
                                      !.now = @ + ToSleep(kept, limiter.now),
                                      !.pc = "request"]
    /\ LimiterUnchanged

(* client.chat.completions.create(...): the request is sent; it comes      *)
(* back with a completion or raises.                                       *)
LimRequest ==
    /\ limiter.pc = "request"
    /\ \E o \in Replies \cup Failures, d \in RequestTime :
          /\ o \in Failures \cup {"empty"} => limiter.left > 0
          /\ limiter' = [limiter EXCEPT
                            !.sent = Append(@, limiter.now),
                            !.now = @ + d,
                            !.kind = o,
                            !.left = IF o = "content" THEN @ ELSE @ - 1,
                            !.pc = IF o \in Replies THEN "mark" ELSE "except"]
    /\ LimiterUnchanged

(* rl.mark(); time.sleep(SAFE_PACE_SECONDS + jitter); an empty completion  *)
(* raises RuntimeError, taken by except Exception.                         *)
LimMark ==
    /\ limiter.pc = "mark"
    /\ \E jitter \in PadJitter :
          limiter' = [limiter EXCEPT
                         !.calls = Append(@, limiter.now),
                         !.now = @ + Ticks(SAFE_PACE_SECONDS) + jitter,
                         !.kind = IF @ = "empty" THEN "unknown" ELSE @,
                         !.pc = IF limiter.kind = "empty" THEN "except" ELSE "ended",
                         !.results = IF limiter.kind = "empty" THEN @
                                     ELSE Append(@, "returned")]
    /\ LimiterUnchanged

(* The except branches: the sleep of each kind of error; a client error    *)
(* is raised again.                                                        *)
LimExcept ==
    /\ limiter.pc = "except"
    /\ \E retry_after \in RetryAfter, net \in NetJitter, unk \in UnknownJitter :
          LET sleep_for ==
                  CASE limiter.kind = "rate_limit" ->
                           Max(Max(Ticks(SAFE_PACE_SECONDS + 10),
                                   Backoff(limiter.attempts)), retry_after)
                    [] limiter.kind \in {"connection", "server"} ->
                           Backoff(limiter.attempts) + net
                    [] limiter.kind = "unknown" -> Backoff(limiter.attempts) + unk
                    [] OTHER -> 0
          IN  limiter' = [limiter EXCEPT
                             !.now = @ + sleep_for,
                             !.pc = IF limiter.kind = "client" THEN "ended" ELSE "loop",
                             !.results = IF limiter.kind = "client"
                                         THEN Append(@, "raised") ELSE @]
    /\ LimiterUnchanged

(* process_athlete_folder of the next athlete calls call_with_retries.     *)
LimNextCall ==
    /\ limiter.pc = "ended" /\ limiter.ncall < MaxCalls
    /\ limiter' = [limiter EXCEPT !.ncall = @ + 1, !.attempts = 0, !.kind = "none",
                                  !.pc = "loop"]
    /\ LimiterUnchanged

LimiterNext ==
    \/ LimLoop
    \/ LimWaitForSlot
    \/ LimRequest
    \/ LimMark
    \/ LimExcept
    \/ LimNextCall

SpecLimiter == LimiterStart /\ [][LimiterNext]_vars

(* One call of call_with_retries in a steady run in which every request    *)
(* may fail, scheduled as long as it has a step to take: the sleeps and    *)
(* the request all come back.                                              *)
RetriesStart ==
    /\ limiter = [pc |-> "loop", now |-> 0, calls |-> <<>>, sent |-> <<>>,
                  attempts |-> 0, kind |-> "none", ncall |-> 1,
                  left |-> MAX_RETRIES, steady |-> TRUE, results |-> <<>>]
    /\ sel = NoSel /\ find = NoFind /\ walk = NoWalk
    /\ table = NoTable /\ sess = NoSess /\ opener = NoOpener /\ cmj = NoCmj
    /\ LateIdle /\ WaitIdle /\ FlowIdle /\ ModalIdle /\ CallIdle /\ CardIdle

RetriesNext ==
    \/ LimLoop
    \/ LimWaitForSlot
    \/ LimRequest
    \/ LimMark
    \/ LimExcept

SpecRetries == RetriesStart /\ [][RetriesNext]_vars /\ WF_vars(RetriesNext)

-----------------------------------------------------------------------------
(* open_modal_from_tile, one click target per step, for a tile with        *)
(* MaxInner inner selectors, each present in the tile or not, and with or  *)
(* without a heading.  A target is <<kind, sel, k>>: k is 1 for the centre *)
(* and 2 for the corner.                                                   *)
MaxInner == 2

(* What one _try_open does: the click raises; the modal does not become    *)
(* visible in 3 s; it becomes visible and the mount wait raises; it        *)
(* becomes visible and the modal is returned.                              *)
TryOutcomes == {"click_raised", "not_visible", "mount_wait_raised", "opened"}

(* expect(modal).to_be_visible(timeout=3000) passed.                       *)
SeenVisible(o) == o \in {"mount_wait_raised", "opened"}

(* The value of _try_open: the modal, or False.                            *)
TryOpen(o) == o = "opened"

(* if modal: return modal                                                  *)
ReturnsModalNever(opened) == FALSE

ReturnsModal(opened) == opened

RECURSIVE Flags(_)
Flags(n) ==
    IF n = 0 THEN {<<>>} ELSE {Append(f, b) : f \in Flags(n - 1), b \in BOOLEAN}

OpenerStart ==
    /\ opener \in [pc : {"expect"}, inner : Flags(MaxInner), heading : BOOLEAN,
                   sel : {0}, k : {0}, tried : {<<>>}, outs : {<<>>},
                   result : {"none"}]
    /\ sel = NoSel /\ find = NoFind /\ walk = NoWalk
    /\ table = NoTable /\ sess = NoSess /\ limiter = NoLimiter /\ cmj = NoCmj
    /\ LateIdle /\ WaitIdle /\ FlowIdle /\ ModalIdle /\ CallIdle /\ CardIdle

OpenerUnchanged ==
    UNCHANGED <<sel, find, walk, table, sess, limiter, cmj, lateVars, waitVars,
                flowVars, modalVars, callVars, cardVars>>

(* The opener after one try at target t with outcome o: it returns the     *)
(* modal, or goes on as given by next.                                     *)
Tried(t, o, next) ==
    LET logged == [opener EXCEPT !.tried = Append(@, t), !.outs = Append(@, o)]
    IN  IF ReturnsModal(TryOpen(o))
        THEN [logged EXCEPT !.result = "modal", !.pc = "done"]
        ELSE [logged EXCEPT !.pc = next.pc, !.sel = next.sel, !.k = next.k]

(* expect(tile).to_be_visible(timeout=20000); tile.scroll_into_view...     *)
OpenerExpectTile ==
    /\ opener.pc = "expect"
    /\ \E visible \in BOOLEAN :
          opener' = IF visible THEN [opener EXCEPT !.pc = "tile", !.k = 1]
                    ELSE [opener EXCEPT !.result = "error", !.pc = "done"]
    /\ OpenerUnchanged

(* 1) the tile, centre then top-left.                                      *)
OpenerTileClick ==
    /\ opener.pc = "tile"
    /\ \E o \in TryOutcomes :
          opener' = Tried(<<"tile", 0, opener.k>>, o,
                          IF opener.k = 1 THEN [pc |-> "tile", sel |-> 0, k |-> 2]
                          ELSE [pc |-> "inner_count", sel |-> 1, k |-> 0])
    /\ OpenerUnchanged

(* 2) for sel in inner_selectors: inner.count() == 0 skips the selector;   *)
(* the count is outside any try.                                           *)
OpenerInnerCount ==
    /\ opener.pc = "inner_count"
    /\ \E counted \in BOOLEAN :
          opener' =
              IF opener.sel > Len(opener.inner) THEN [opener EXCEPT !.pc = "heading"]
              ELSE IF ~counted THEN [opener EXCEPT !.result = "error", !.pc = "done"]
              ELSE IF opener.inner[opener.sel]
                   THEN [opener EXCEPT !.pc = "inner", !.k = 1]
              ELSE [opener EXCEPT !.sel = @ + 1]
    /\ OpenerUnchanged

(* The inner node, centre then top-left.                                   *)
OpenerInnerClick ==
    /\ opener.pc = "inner"
    /\ \E o \in TryOutcomes :
          opener' = Tried(<<"inner", opener.sel, opener.k>>, o,
                          IF opener.k = 1
                          THEN [pc |-> "inner", sel |-> opener.sel, k |-> 2]
                          ELSE [pc |-> "inner_count", sel |-> opener.sel + 1, k |-> 0])
    /\ OpenerUnchanged

(* 3) the heading, when the tile has one; the count is outside any try.    *)
OpenerHeading ==
    /\ opener.pc = "heading"
    /\ \E counted \in BOOLEAN, o \in TryOutcomes :
          opener' =
              IF ~counted THEN [opener EXCEPT !.result = "error", !.pc = "done"]
              ELSE IF ~opener.heading THEN [opener EXCEPT !.pc = "enter"]
              ELSE Tried(<<"heading", 0, 1>>, o, [pc |-> "enter", sel |-> 0, k |-> 0])
    /\ OpenerUnchanged

(* 4) tile.focus(); Enter; the same wait for the modal; then the raise of  *)
(* RuntimeError("Could not open modal from tile ...").                     *)
OpenerEnter ==
    /\ opener.pc = "enter"
    /\ \E o \in TryOutcomes :
          opener' = [opener EXCEPT
                        !.tried = Append(@, <<"enter", 0, 1>>),
                        !.outs = Append(@, o),
                        !.result = IF o = "opened" THEN "modal" ELSE "open_failure",
                        !.pc = "done"]
    /\ OpenerUnchanged

OpenerNext ==
    \/ OpenerExpectTile
    \/ OpenerTileClick
    \/ OpenerInnerCount
    \/ OpenerInnerClick
    \/ OpenerHeading
    \/ OpenerEnter

SpecOpener == OpenerStart /\ [][OpenerNext]_vars

-----------------------------------------------------------------------------
(* find_countermovement_jump_tile and its caller                           *)
(* open_modal_countermovement_jump, one call on the page per step.         *)
(* matching is the set of passes whose selector matches a tile of the      *)
(* page; a matching tile is lazy and may or may not be visible at a check. *)
NumPasses == 4
SCAN_STEPS == 7

(* Where the scan goes when a check saw the candidate visible.             *)
AfterSeenGoOn == "scroll"

AfterSeen == "found"

CmjStart ==
    /\ cmj \in [pc : {"make"}, matching : SUBSET (1..NumPasses), pass : {1},
                step : {0}, scrolls : {0}, checks : {<<>>}, result : {"none"},
                raised : {"none"}]
    /\ sel = NoSel /\ find = NoFind /\ walk = NoWalk
    /\ table = NoTable /\ sess = NoSess /\ limiter = NoLimiter /\ opener = NoOpener
    /\ LateIdle /\ WaitIdle /\ FlowIdle /\ ModalIdle /\ CallIdle /\ CardIdle

CmjUnchanged ==
    UNCHANGED <<sel, find, walk, table, sess, limiter, opener, lateVars, waitVars,
                flowVars, modalVars, callVars, cardVars>>

(* A raise out of find_countermovement_jump_tile, which its caller does    *)
(* not take.                                                               *)
CmjError(c) == [c EXCEPT !.result = "error", !.raised = "error", !.pc = "done"]

(* The next pass of for pi, make_locator in enumerate(passes), or the      *)
(* return of None after the last.                                          *)
NextPass(c) ==
    IF c.pass < NumPasses THEN [c EXCEPT !.pass = @ + 1, !.pc = "make"]
    ELSE [c EXCEPT !.result = "not_found", !.pc = "returned"]

(* A check of the candidate: cand.count() > 0 and cand.first.is_visible(), *)
(* an exception taken as not visible.                                      *)
Checked(c, when, seen) ==
    [c EXCEPT !.checks = Append(@, [pass |-> c.pass, when |-> when,
                                    scrolls |-> c.scrolls, seen |-> seen])]

(* cand = make_locator(), None when it raises; if not cand: continue       *)
CmjMakeLocator ==
    /\ cmj.pc = "make"
    /\ \E made \in BOOLEAN :
          cmj' = IF made THEN [cmj EXCEPT !.pc = "scan_top"] ELSE NextPass(cmj)
    /\ CmjUnchanged

(* _scan_for_visibility: scrollTo(0,0) in a try, then the wait of 120 ms,  *)
(* which is outside any try.                                               *)
CmjScanTop ==
    /\ cmj.pc = "scan_top"
    /\ \E waited \in BOOLEAN :
          cmj' = IF waited THEN [cmj EXCEPT !.pc = "check", !.step = 0, !.scrolls = 0]
                 ELSE CmjError(cmj)
    /\ CmjUnchanged

(* for _ in range(max(1, steps)): the check before the scroll.             *)
CmjCheck ==
    /\ cmj.pc = "check"
    /\ \E seen \in BOOLEAN :
          /\ seen => cmj.pass \in cmj.matching
          /\ cmj' = [Checked(cmj, "step", seen) EXCEPT
                        !.pc = IF seen THEN AfterSeen ELSE "scroll"]
    /\ CmjUnchanged

(* scrollBy(...) in a try, then the wait of pause_ms outside any try.      *)
CmjScroll ==
    /\ cmj.pc = "scroll"
    /\ \E waited \in BOOLEAN :
          cmj' = IF ~waited THEN CmjError([cmj EXCEPT !.scrolls = @ + 1])
                 ELSE [cmj EXCEPT !.scrolls = @ + 1, !.step = @ + 1,
                                  !.pc = IF cmj.step + 1 < SCAN_STEPS THEN "check"
                                         ELSE "final_top"]
    /\ CmjUnchanged

(* The final check after returning to the top; return None when the        *)
(* candidate is still not visible.                                         *)
CmjFinalCheck ==
    /\ cmj.pc = "final_top"
    /\ \E waited \in BOOLEAN, seen \in BOOLEAN :
          /\ seen => cmj.pass \in cmj.matching
          /\ cmj' = IF ~waited THEN CmjError(cmj)
                    ELSE IF seen THEN [Checked(cmj, "final", TRUE) EXCEPT !.pc = "found"]
                    ELSE NextPass(Checked(cmj, "final", FALSE))
    /\ CmjUnchanged

(* if vis: log(... get_tile_heading_text(vis) ...); return vis.  The       *)
(* heading read is outside any try.                                        *)
CmjFound ==
    /\ cmj.pc = "found"
    /\ \E logged \in BOOLEAN :
          cmj' = IF logged THEN [cmj EXCEPT !.result = "tile", !.pc = "returned"]
                 ELSE CmjError(cmj)
    /\ CmjUnchanged

(* open_modal_countermovement_jump: if tile is None: raise RuntimeError;   *)
(* else open_modal_from_tile.                                              *)
CmjOpen ==
    /\ cmj.pc = "returned"
    /\ cmj' = [cmj EXCEPT !.raised = IF cmj.result = "not_found" THEN "not_present"
                                     ELSE "none",
                          !.pc = "done"]
    /\ CmjUnchanged

CmjNext ==
    \/ CmjMakeLocator
    \/ CmjScanTop
    \/ CmjCheck
    \/ CmjScroll
    \/ CmjFinalCheck
    \/ CmjFound
    \/ CmjOpen

(* The locator is called on the one thread of the scraper and runs until   *)
(* it returns or raises.                                                   *)
SpecCmj == CmjStart /\ [][CmjNext]_vars /\ WF_vars(CmjNext)

-----------------------------------------------------------------------------
(* Properties of the accordion wait (SpecWait).                            *)

-----------------------------------------------------------------------------
(* Properties of screenshot_modal_accordions (SpecModal).                  *)

(* The files of prefix p, and the indices they carry.                      *)
IndicesOf(p) == {f[2] : f \in {g \in files : g[1] = p}}

(* C1 as stated: for every prefix the indices of the files written are     *)
(* exactly 1..k, k the number of files of that prefix, whatever failed.    *)
C1_IndicesContiguous ==
    \A p \in Prefixes : IndicesOf(p) = 1..Cardinality(IndicesOf(p))

(* C5 as stated: once discovery ends with a count of zero, the call        *)
(* returns 1 with exactly one whole-modal image written; it never raises   *)
(* and never ends with no image.                                           *)
C5_ZeroCountGivesOneImage ==
    (mode = "fallback" /\ pc # "fallback") =>
        (~raised /\ ret = 1 /\ Len(shots) = 1)

(* C6: when the count settles at n > 0 and no section capture fails, the   *)
(* call returns n having written prefix_001 .. prefix_00n of a fresh       *)
(* prefix, file i being section i in DOM order.                            *)
C6_StableCountCapturesEverySection ==
    (pc = "close" /\ disc.stableAt > 0 /\ skipped = 0) =>
        /\ mode = "sections"
        /\ ret = disc.stableAt
        /\ shots = [i \in 1..disc.stableAt |-> <<i, i>>]
        /\ {f \in files : f[1] = Prefix} = {<<Prefix, i>> : i \in 1..disc.stableAt}

C6_Witness ==
    /\ pc = "close" /\ disc.stableAt = MaxAcc /\ skipped = 0
    /\ ret = MaxAcc /\ Len(shots) = MaxAcc

(* C7, as the code has it: when the count never stays unchanged and        *)
(* non-zero for the stable duration within the discovery timeout, the wait *)
(* returns the count it reads after the timeout; the call falls back to    *)
(* the single whole-modal screenshot exactly when that count is zero, and  *)
(* otherwise captures that many sections one by one.                       *)
C7_TimeoutFallsBackOnlyAtZero ==
    (mode # "none" /\ disc.stableAt = 0) =>
        /\ disc.timedOut
        /\ disc.ret = disc.last
        /\ (mode = "fallback") = (disc.last = 0)
        /\ (mode = "sections") = (disc.last > 0)

C7_Witness ==
    /\ pc = "close" /\ mode = "sections" /\ disc.timedOut
    /\ disc.stableAt = 0 /\ ret = disc.last

(* C7 as stated: a count that never settles within the timeout, changing   *)
(* among non-zero values included, always gives the whole-modal fallback.  *)
C7_UnsettledAlwaysFallsBack ==
    (mode # "none" /\ disc.stableAt = 0) => mode = "fallback"

(* C11: in the section loop a failure on section i is logged and skipped   *)
(* and every later section is still attempted: each of the total sections  *)
(* is either taken or skipped, and the loop ends only after the last one,  *)
(* never by a raise.                                                       *)
C11_FailedSectionSkippedLoopGoesOn ==
    mode = "sections" =>
        /\ took + skipped = secI
        /\ secI <= disc.ret
        /\ pc # "section" => secI = disc.ret
        /\ ~raised

C11_Witness ==
    /\ pc = "close" /\ mode = "sections" /\ disc.ret = MaxAcc
    /\ skipped >= 1 /\ took >= 1
    /\ shots[Len(shots)][2] = disc.ret

(* C12: the value screenshot_modal_accordions returns is the number of     *)
(* image files it wrote for the tile, whichever sections succeeded or      *)
(* failed, and in the fallback as well.                                    *)
C12_ReturnIsFilesWritten ==
    pc = "close" =>
        /\ ret = Len(shots)
        /\ ret = Cardinality({f \in files : f[1] = Prefix})
        /\ \A i \in 1..Len(shots) : <<Prefix, shots[i][1]>> \in files

C12_Witness ==
    /\ pc = "close" /\ mode = "sections" /\ skipped = 1
    /\ ret = MaxAcc - 1 /\ counters[Prefix] = MaxAcc

-----------------------------------------------------------------------------
(* Properties of capture_humantrak_card (SpecCard).                        *)

(* The content hashes of the files the call in progress has written.       *)
ShotHashes == {shots[i][2] : i \in 1..Len(shots)}

(* C2: no two files written by one capture_humantrak_card call have the    *)
(* same content hash.                                                      *)
C2_NoTwoFilesSameHash ==
    \A i, j \in 1..Len(shots) : i # j => shots[i][2] # shots[j][2]

C2_Witness ==
    /\ pc = "step_end" /\ ~raised /\ Len(shots) >= 2
    /\ hist.exhausted > 0

(* C3: when the screenshots of a label keep giving a digest already seen   *)
(* until the retries run out, a bounce (another metric selected, then the  *)
(* label again) is begun before the label ends, with a new file or         *)
(* skipped; a render whose digest was seen is never written under a new    *)
(* index.                                                                  *)
C3_BounceBeforeLabelEnds ==
    /\ hist.bounces <= hist.exhausted
    /\ hist.exhausted <= hist.bounces + 1
    /\ hist.bounced <= hist.bounces
    /\ (pc = "label_end" /\ hist.exhausted > 0) =>
           (hist.bounces = hist.exhausted /\ hist.bounces >= 1)
    /\ ShotHashes = seen_hashes
    /\ Cardinality(seen_hashes) = Len(shots)

C3_Witness ==
    /\ pc = "label_end" /\ hist.exhausted > 0 /\ hist.bounced > 0
    /\ success /\ hist.wrote = 1

(* C4: a call writes at most one file for each requested label, and the    *)
(* count it returns is the number of files it wrote.                       *)
C4_OneFilePerLabelAndCountReturned ==
    /\ hist.wrote <= 1
    /\ taken = Len(shots)
    /\ Len(shots) <= labelIdx
    /\ Len(shots) <= NumLabels
    /\ (pc = "step_end" /\ ~raised) =>
           /\ ret = Len(shots)
           /\ ret = Cardinality({f \in files : f[1] = Prefix})

C4_Witness ==
    /\ pc = "step_end" /\ ~raised /\ ret = NumLabels - 1
    /\ Len(shots) = NumLabels - 1

(* C19 as stated: a label whose attempts all fail is skipped and every     *)
(* later label is still attempted; no failure inside the per-label loop    *)
(* is raised out of the call, which raises only from its tile lookup.      *)
C19_LabelLoopNeverRaises ==
    pc = "step_end" =>
        IF raised THEN labelIdx = 0 ELSE labelIdx = NumLabels

(* A step that ends a bounce: the alternative could not be selected, or    *)
(* the label was selected again (or that raised, silently).                *)
BounceEnds == pc = "bounce_back" \/ (pc = "bounce_alt" /\ pc' # "bounce_back")

(* C28, as the code has it: a label gets at most 3 attempts, each with at  *)
(* most 3 screenshot tries; a bounce made in attempt 1 or 2 is followed by *)
(* the next attempt (a selection, and a screenshot when the selection      *)
(* succeeds), the bounce made in attempt 3 is followed by the end of the   *)
(* label without another screenshot; and the call always comes to its end. *)
C28_AttemptsBoundedAndCallEnds ==
    /\ [](attempt \in 0..MaxAttempts /\ dupTry \in 0..MaxDupeRetries)
    /\ [][BounceEnds =>
            IF attempt < MaxAttempts
            THEN pc' = "select" /\ attempt' = attempt + 1
            ELSE pc' = "label_end" /\ attempt' = attempt /\ shots' = shots]_vars
    /\ <>(pc = "step_end")

(* A label ended after three attempts that each ran out of screenshot      *)
(* tries and bounced.                                                      *)
C28_Witness ==
    pc = "label_end" /\ attempt = MaxAttempts /\ hist.bounced = MaxAttempts /\ ~success

(* C28 as stated: every bounce made after a duplicate is followed by a     *)
(* further attempt for that label.                                         *)
C28_EveryBounceFollowedByAttempt ==
    [][BounceEnds => pc' = "select"]_vars

-----------------------------------------------------------------------------
(* Properties of take_screens_for_athlete (Spec).                          *)

(* C9: the six checklist steps are attempted in the fixed order            *)
(* Countermovement Jump, Nordic, 20yd Sprint, 5-0-5 Drill, Overhead Squat, *)
(* Lunge whatever the outcome of each step, and the run then returns       *)
(* normally: no step's failure is raised out of it.                        *)
C9_AllSixStepsAttemptedInOrder ==
    /\ [i \in 1..NumSteps |-> Checklist[i].name] =
           <<"Countermovement Jump", "Nordic", "20yd Sprint", "5-0-5 Drill",
             "Overhead Squat", "Lunge">>
    /\ attempted = [i \in 1..Len(attempted) |-> i]
    /\ pc = "done" => (Len(attempted) = NumSteps /\ total >= 0)
    /\ pc = "aborted" => attempted = <<>>
    /\ \A k \in 1..Len(attempted) :
           (outcome[k] = "failed" /\ k < NumSteps /\ pc = "done") =>
               outcome[k + 1] # "none"

C9_Witness ==
    /\ pc = "done" /\ Len(attempted) = NumSteps
    /\ outcome[2] = "failed" /\ outcome[3] = "ok"
    /\ outcome[5] = "failed" /\ outcome[6] = "ok"

(* C10 as stated: whenever a modal step ends after its modal reached OPEN, *)
(* close_modal has been invoked, also when the capture raised.             *)
C10_ModalClosedBeforeNextStep ==
    pc = "step_end" => modal \notin {"OPEN", "CAPTURING"}

-----------------------------------------------------------------------------
(* Properties of select_metric_and_wait (SpecSelect).                      *)

(* The call is over, and it got as far as clicking the option.             *)
SelClicked == sel.pc \in {"returned", "raised"} /\ sel.menuOpens /\ sel.optionShown

C15_TokenConfirmsOnlyItsLabel ==
    sel.pc \in {"fp", "returned"} => sel.shown = sel.label

-----------------------------------------------------------------------------
(* Properties of find_smartspeed_tile_by_title (SpecFind).                 *)

(* C16 as stated: the tile returned is one whose heading is the desired    *)
(* title, for every row of smartspeed tiles; with no such heading no other *)
(* tile (the 20yd Sprint tile, or the first tile) is returned.             *)
C16_ReturnedTileHasDesiredHeading ==
    find.pc = "found" =>
        Normalize(HeadingText(find.tiles[find.result])) = Normalize(find.want)

-----------------------------------------------------------------------------
(* Properties of the counters across athletes (SpecAthletes, Spec).        *)

(* C17: every take_screens_for_athlete call starts with all prefix         *)
(* counters at 0, whatever the athletes before it captured: a file's index *)
(* never exceeds the counter of its own call, and as long as nothing has   *)
(* failed the files of each prefix are numbered from 1.                    *)
C17_CountersFreshPerAthlete ==
    /\ (pc = "step_begin" /\ step = 1) => counters = [p \in Prefixes |-> 0]
    /\ \A f \in files : f[2] <= counters[f[1]]
    /\ env.left = AthletesBrowser.left =>
           \A p \in Prefixes : IndicesOf(p) = 1..Cardinality(IndicesOf(p))

C17_Witness ==
    /\ pc = "step_begin" /\ step = 1 /\ total > 0
    /\ env.athletes < MaxAthletes
    /\ counters = [p \in Prefixes |-> 0]

(* C18 as stated: the total logged at the end of an athlete's capture is   *)
(* the number of image files produced for the athlete, also when section   *)
(* screenshots, file writes or whole steps failed.                         *)
C18_TotalIsFilesProduced ==
    pc = "done" => total = Cardinality(files)

-----------------------------------------------------------------------------
(* Properties of the team loop of main (SpecWalk).                         *)

(* C20 as stated: when the walker goes from one team to the next the       *)
(* filter is empty before the next team's option is selected, and whenever *)
(* the rows of a team are read the filter holds that team only, also when  *)
(* the clear control is missing or a clear click fails.                    *)
C20_FilterHoldsOnlyTheTeamRead ==
    /\ walk.pc = "select_team" => walk.filter = {}
    /\ \A i \in 1..Len(walk.rows) : walk.rows[i][2] = {walk.rows[i][1]}

-----------------------------------------------------------------------------
(* Properties of the table walk of one team (SpecTable, SpecTableLive).    *)

(* A digit test written out, for the names that reached the capture.       *)
ContainsDigit(name) == \E i \in 1..Len(name) : name[i] \in Digits

(* Every row of the table, in order, as <<page, i>>.                       *)
RECURSIVE RowsUpTo(_, _)
RowsUpTo(pages, p) ==
    IF p = 0 THEN <<>>
    ELSE RowsUpTo(pages, p - 1) \o [i \in 1..Len(pages[p]) |-> <<p, i - 1>>]

(* C21, as the code has it: within one team pass the capture is invoked    *)
(* again for a sanitized name only when every earlier invocation for that  *)
(* name raised; a name is in processed_athletes exactly when one of its    *)
(* invocations returned, and from then on its rows are skipped.            *)
C21_NoCaptureAfterOneThatReturned ==
    /\ \A j, k \in 1..Len(table.calls) :
          (j < k /\ table.calls[j].safe = table.calls[k].safe) => ~table.calls[j].ok
    /\ table.processed_athletes =
          {table.calls[k].safe : k \in {j \in 1..Len(table.calls) : table.calls[j].ok}}

(* A row was skipped because its sanitized name had been processed.        *)
C21_Witness ==
    /\ \E k \in 1..Len(table.skips) : table.skips[k] = "already_processed"
    /\ table.pc = "done"

(* C21 as stated: the capture is invoked at most once per sanitized name   *)
(* per team pass, for any order and repetition of rows.                    *)
C21_AtMostOneCapturePerName ==
    \A j, k \in 1..Len(table.calls) :
        j # k => table.calls[j].safe # table.calls[k].safe

(* C22: the walker never opens the overview and never invokes the capture  *)
(* for a row whose display name contains a digit.                          *)
C22_NoCaptureForDigitNames ==
    /\ \A k \in 1..Len(table.opened) : ~ContainsDigit(table.opened[k])
    /\ \A k \in 1..Len(table.calls) : ~ContainsDigit(table.calls[k].name)

(* A row with a digit in its name was met and skipped, and the walk went   *)
(* on to its end.                                                          *)
C22_Witness ==
    /\ \E k \in 1..Len(table.skips) : table.skips[k] = "test_profile"
    /\ table.pc = "done"

(* C23: the pages are walked in order from the first without skipping      *)
(* one, the walk of the team ends normally only at the last page (the      *)
(* first whose next-page control is disabled) with every row of every page *)
(* looked at, and the walk always comes to an end (normally, or by the     *)
(* raise of a call outside the per-athlete try, which ends main).          *)
C23_PagesInOrderUntilControlDisabled ==
    /\ [](/\ table.visited = [k \in 1..Len(table.visited) |-> k]
          /\ Len(table.visited) \in {table.page - 1, table.page}
          /\ table.pc = "done" =>
                /\ table.page = Len(table.pages)
                /\ Len(table.visited) = Len(table.pages)
                /\ table.looked = RowsUpTo(table.pages, Len(table.pages)))
    /\ <>(table.pc \in {"done", "top_error"})

(* A team of more than one page was walked to its last page.               *)
C23_Witness == table.pc = "done" /\ Len(table.pages) > 1

(* C26: an exception raised by the capture of one athlete does not stop    *)
(* the walker: the capture, whether it returns or raises, is followed by   *)
(* the navigation back to the profiles list, and once that has arrived     *)
(* the walker is at the next row of the same page.                         *)
C26_CaptureErrorDoesNotStopWalker ==
    [][/\ table.pc = "capture" =>
            table'.pc = "back" /\ table'.i = table.i /\ table'.page = table.page
       /\ (table.pc = "back" /\ table'.pc # "top_error") =>
            table'.pc = "row" /\ table'.i = table.i + 1 /\ table'.page = table.page]_vars

(* A capture raised and the row after it on the same page was looked at.   *)
C26_Witness ==
    \E k \in 1..Len(table.calls) :
        /\ ~table.calls[k].ok
        /\ \E m \in 1..Len(table.looked) :
              table.looked[m] = <<table.calls[k].at[1], table.calls[k].at[2] + 1>>

-----------------------------------------------------------------------------
(* Properties of the session of main (SpecMain).                           *)

(* C24: once perform_login has failed (it returned False or it raised),    *)
(* with no stored session or after a stored session was found invalid,     *)
(* the run is over: main has returned or is in its except, no team filter  *)
(* was applied, no rows were read and no athlete was captured.             *)
C24_LoginFailureEndsRun ==
    sess.login \in {"false", "raised"} =>
        /\ sess.pc \in {"returned", "top_error"}
        /\ walk = NoWalk
        /\ ~sess.captured

(* perform_login returned False and main returned.                         *)
C24_Witness == sess.login = "false" /\ sess.pc = "returned"

(* C25: AUTH_FILE is written only at the statement that follows a          *)
(* perform_login that returned True, and once; a stored session found      *)
(* invalid is removed before the re-login, so that no file is left after   *)
(* a re-login that failed; a stored session found valid is kept as it is   *)
(* and no login is made.                                                   *)
C25_AuthStateWrittenOnlyAfterLogin ==
    /\ sess.pc = "save" => sess.login = "true"
    /\ sess.writes > 0 => sess.login = "true" /\ sess.writes = 1
    /\ sess.auth = "new" <=> sess.writes = 1
    /\ sess.login # "none" => sess.auth # "old"
    /\ (sess.probe = "invalid" /\ sess.login \in {"false", "raised"}) =>
          sess.auth = NoAuth
    /\ sess.probe = "valid" =>
          sess.auth = "old" /\ sess.writes = 0 /\ sess.login = "none"

(* A stored session was found invalid, the re-login failed and no file is  *)
(* left.                                                                   *)
C25_Witness ==
    sess.probe = "invalid" /\ sess.login = "false" /\ sess.auth = NoAuth

-----------------------------------------------------------------------------
(* Properties of the ChatGPT rate limiter (SpecLimiter).                   *)

(* C27 as stated: no more than RATE_LIMIT_RPM (1) requests are sent within *)
(* any 60-second window, that is, any two requests are at least a window   *)
(* apart, whatever the successes and retried failures.                     *)
C27_AtMostOneRequestPerWindow ==
    \A i, j \in 1..Len(limiter.sent) :
        i < j => limiter.sent[j] - limiter.sent[i] >= Ticks(WINDOW)

-----------------------------------------------------------------------------
(* Properties of open_modal_from_tile (SpecOpener).                        *)

(* The click targets in the order of the code, and those the tile has.     *)
RECURSIVE InnerTargets(_)
InnerTargets(n) ==
    IF n = 0 THEN <<>>
    ELSE InnerTargets(n - 1) \o <<<<"inner", n, 1>>, <<"inner", n, 2>>>>

TargetOrder ==
    <<<<"tile", 0, 1>>, <<"tile", 0, 2>>>> \o InnerTargets(Len(opener.inner))
        \o <<<<"heading", 0, 1>>, <<"enter", 0, 1>>>>

TargetsPresent ==
    SelectSeq(TargetOrder,
              LAMBDA t : CASE t[1] = "inner" -> opener.inner[t[2]]
                           [] t[1] = "heading" -> opener.heading
                           [] OTHER -> TRUE)

(* C29, as the code has it: the targets tried are, in the fixed order, the *)
(* first of those the tile has, none skipped; a try counts as opened when  *)
(* the modal was seen visible and the mount wait after it returned; the    *)
(* call returns at the first try that opened, with a modal seen visible,   *)
(* and raises the open failure only when every target was tried and none   *)
(* opened.  A try whose modal was seen visible but whose mount wait raised *)
(* counts as failed, and the next target is tried.                         *)
C29_TargetsInOrderUntilOpened ==
    /\ Len(opener.tried) <= Len(TargetsPresent)
    /\ opener.tried = SubSeq(TargetsPresent, 1, Len(opener.tried))
    /\ \A j \in 1..Len(opener.outs) :
          opener.outs[j] = "opened" => (j = Len(opener.outs) /\ opener.result = "modal")
    /\ opener.result = "modal" =>
          /\ Len(opener.outs) > 0
          /\ opener.outs[Len(opener.outs)] = "opened"
          /\ SeenVisible(opener.outs[Len(opener.outs)])
    /\ opener.result = "open_failure" =>
          /\ opener.tried = TargetsPresent
          /\ \A j \in 1..Len(opener.outs) : opener.outs[j] # "opened"

(* The modal was returned by a try after the first, on a tile with an      *)
(* inner node.                                                             *)
C29_Witness ==
    /\ opener.result = "modal" /\ Len(opener.tried) > 2
    /\ opener.tried[Len(opener.tried)][1] = "inner"

(* C29 as stated: the call stops at the first try after which a modal is   *)
(* observed visible: no target is tried after such a try.                  *)
C29_StopsAtFirstVisibleModal ==
    \A j \in 1..Len(opener.outs) :
        SeenVisible(opener.outs[j]) => j = Len(opener.outs) /\ opener.pc = "done"

-----------------------------------------------------------------------------
(* Properties of the Countermovement Jump tile locator (SpecCmj).          *)

(* The checks made so far by the scan of pass p.                           *)
ChecksOf(p) == SelectSeq(cmj.checks, LAMBDA c : c.pass = p)

(* C30: the passes are scanned in their order and the tile returned is     *)
(* that of the first check that saw the candidate visible; a scan makes    *)
(* at most 7 scroll steps, a check before each, and one final check after  *)
(* the return to the top; None is returned only when no check saw a        *)
(* candidate and every pass that gave a locator was scanned to its final   *)
(* check, and open_modal_countermovement_jump then raises; the call        *)
(* always comes to its end (a tile, the raise for a tile not present, or   *)
(* the raise of one of the waits or of the heading read for the log,       *)
(* which are outside any try).                                             *)
C30_FirstVisiblePassWinsWithinSevenScrolls ==
    /\ [](/\ cmj.scrolls <= SCAN_STEPS
          /\ \A j \in 1..Len(cmj.checks) :
                /\ cmj.checks[j].seen => j = Len(cmj.checks)
                /\ j > 1 => cmj.checks[j - 1].pass <= cmj.checks[j].pass
                /\ cmj.checks[j].when = "final" <=> cmj.checks[j].scrolls = SCAN_STEPS
          /\ \A p \in 1..NumPasses :
                /\ Len(ChecksOf(p)) <= SCAN_STEPS + 1
                /\ \A j \in 1..Len(ChecksOf(p)) : ChecksOf(p)[j].scrolls = j - 1
          /\ cmj.result = "tile" =>
                /\ Len(cmj.checks) > 0
                /\ cmj.checks[Len(cmj.checks)].seen
                /\ cmj.checks[Len(cmj.checks)].pass = cmj.pass
          /\ cmj.result = "not_found" =>
                /\ \A j \in 1..Len(cmj.checks) : ~cmj.checks[j].seen
                /\ \A p \in 1..NumPasses : Len(ChecksOf(p)) \in {0, SCAN_STEPS + 1}
          /\ cmj.pc = "done" =>
                (cmj.raised = "not_present" <=> cmj.result = "not_found"))
    /\ <>(cmj.pc = "done")

(* No pass saw a visible candidate although all four were scanned to their *)
(* final check, and the opener raised.                                     *)
C30_Witness ==
    /\ cmj.pc = "done" /\ cmj.raised = "not_present"
    /\ Len(cmj.checks) = NumPasses * (SCAN_STEPS + 1)

-----------------------------------------------------------------------------
(* The calls that write into the athlete's folder, each on its own: one    *)
(* modal step (any number of failures) or one metric-switch step (up to    *)
(* CardFaults failures) of the checklist.                                  *)
FilesStart == ModalStart \/ CardStart

FilesNext ==
    \/ ModalNext
    \/ CardNext

SpecFiles == FilesStart /\ [][FilesNext]_vars

(* Properties of the paths written during one athlete's capture            *)
(* (SpecFiles).                                                            *)

(* C31: within one athlete's capture every write (by the modal fallback,   *)
(* by an accordion section or by the tile screenshot) goes to a path       *)
(* <<prefix, index>> that no earlier write of that capture used: the step  *)
(* that adds a file to the call's list adds exactly one new path to the    *)
(* folder, no file carries an index above its prefix's counter, and a      *)
(* counter never goes back while the capture runs.                         *)
C31_EveryWriteUsesNewPath ==
    [][/\ Len(shots') > Len(shots) =>
             \E p \in Prefixes :
                /\ <<p, counters'[p]>> \notin files
                /\ files' = files \cup {<<p, counters'[p]>>}
                /\ Cardinality(files') = Cardinality(files) + 1
       /\ \A f \in files' : f[2] <= counters'[f[1]]
       /\ env'.athletes = env.athletes =>
             \A p \in Prefixes : counters'[p] >= counters[p]]_vars

(* A call ended with two files under one prefix and with an index that a   *)
(* failed write had used up.                                               *)
C31_Witness ==
    /\ pc = "step_begin"
    /\ \E p \in Prefixes :
          /\ Cardinality(IndicesOf(p)) >= 2
          /\ counters[p] > Cardinality(IndicesOf(p))

-----------------------------------------------------------------------------
(* bounce_then_reselect of src/src/scripts/scrape_vald.py, one call of     *)
(* select_metric_and_wait per step, for every desired label, every list of *)
(* alternatives and every answer of the page.  Labels are positions in     *)
(* ht_labels.                                                              *)

(* def select_metric_and_wait(page, tile, label, timeout_ms=10000): the    *)
(* parameters, and how many of them have no default.                       *)
SelectMetricParams == <<"page", "tile", "label", "timeout_ms">>
SelectMetricRequired == 3

(* The positional arguments of the two calls bounce_then_reselect makes.   *)
AltCallArgs == <<"page", "tile", "alt">>
ReselectCallArgs == <<"page", "desired_label">>

(* Python's binding of positional arguments to the parameters: the call    *)
(* raises TypeError unless every parameter without a default gets one.     *)
Binds(args) ==
    /\ Len(args) >= SelectMetricRequired
    /\ Len(args) <= Len(SelectMetricParams)

(* The label a call passes, by the name of its third argument.             *)
LabelPassed(args, b) ==
    IF args[3] = "alt" THEN b.alt ELSE b.desired

(* Lists of distinct labels, up to n long.                                 *)
LabelLists(n) ==
    {l \in UNION {[1..k -> 1..NumLabels] : k \in 0..n} :
        \A i, j \in 1..Len(l) : i # j => l[i] # l[j]}

(* next((x for x in alternatives if x != desired_label), None); 0: None.   *)
FirstAlt(alternatives, desired) ==
    LET I == {i \in 1..Len(alternatives) : alternatives[i] # desired}
    IN IF I = {} THEN 0
       ELSE alternatives[CHOOSE i \in I : \A j \in I : i <= j]

(* What a select_metric_and_wait call can come to: the page accepts the    *)
(* selection, the menu or the option fails before the click, or the click  *)
(* goes through and a confirmation after it raises.                        *)
SelectOutcomes == {"ok", "raised_before_click", "raised_after_click"}

BounceStart ==
    /\ bounce \in [pc : {"alt_pick"}, desired : 1..NumLabels,
                   alternatives : LabelLists(NumLabels), shown : 1..NumLabels,
                   alt : {0}, outs : {<<>>}, raised : {"none"}]
    /\ bounce.shown = bounce.desired
    /\ sel = NoSel /\ find = NoFind /\ walk = NoWalk /\ MoreIdle
    /\ grok = NoGrok /\ worker = NoWorker /\ tree = NoTree
    /\ WaitIdle /\ FlowIdle /\ ModalIdle /\ CallIdle /\ CardIdle

BounceUnchanged ==
    UNCHANGED <<sel, find, walk, moreVars, grok, worker, tree, waitVars, flowVars,
                modalVars, callVars, cardVars>>

(* One call of select_metric_and_wait with the given arguments: TypeError  *)
(* when they do not bind, else one of the outcomes on the page.            *)
SelectCall(b, args, o) ==
    IF ~Binds(args)
    THEN [b EXCEPT !.outs = Append(@, "TypeError")]
    ELSE [b EXCEPT !.outs = Append(@, o),
                   !.shown = IF o = "raised_before_click" THEN @
                             ELSE LabelPassed(args, b)]

(* alt = next(...); if not alt: return                                     *)
BouncePickAlt ==
    /\ bounce.pc = "alt_pick"
    /\ LET a == FirstAlt(bounce.alternatives, bounce.desired)
       IN bounce' = [bounce EXCEPT !.alt = a,
                                   !.pc = IF a = 0 THEN "done" ELSE "alt_select"]
    /\ BounceUnchanged

(* try: select_metric_and_wait(page, tile, alt)                            *)
(* except Exception: pass                                                  *)
BounceSelectAlt ==
    /\ bounce.pc = "alt_select"
    /\ \E o \in SelectOutcomes :
          LET b == SelectCall(bounce, AltCallArgs, o)
          IN bounce' = [b EXCEPT !.pc = IF b.outs[Len(b.outs)] = "ok"
                                         THEN "alt_wait" ELSE "reselect"]
    /\ BounceUnchanged

(* page.wait_for_timeout(400), inside the same try.                        *)
BounceAltWait ==
    /\ bounce.pc = "alt_wait"
    /\ bounce' = [bounce EXCEPT !.pc = "reselect"]
    /\ BounceUnchanged

(* select_metric_and_wait(page, desired_label), outside any try.           *)
BounceReselect ==
    /\ bounce.pc = "reselect"
    /\ \E o \in SelectOutcomes :
          LET b == SelectCall(bounce, ReselectCallArgs, o)
              last == b.outs[Len(b.outs)]
          IN bounce' = [b EXCEPT !.pc = "done",
                                 !.raised = IF last = "ok" THEN "none" ELSE last]
    /\ BounceUnchanged

BounceNext ==
    \/ BouncePickAlt
    \/ BounceSelectAlt
    \/ BounceAltWait
    \/ BounceReselect

SpecBounce == BounceStart /\ [][BounceNext]_vars

(* Properties of bounce_then_reselect (SpecBounce).                        *)

(* C32 as stated: a call with at least one alternative label, every        *)
(* selection of which the page accepted, returns normally with the desired *)
(* label shown on the tile.                                                *)
C32_BounceReturnsWithDesiredSelected ==
    (/\ bounce.pc = "done" /\ bounce.alt # 0
     /\ \A i \in 1..Len(bounce.outs) :
           bounce.outs[i] \notin {"raised_before_click", "raised_after_click"})
        => (bounce.raised = "none" /\ bounce.shown = bounce.desired)

-----------------------------------------------------------------------------
(* Properties of the team loop of main under a failing team switch         *)
(* (SpecWalkLive).                                                         *)

(* The switch to the team in turn failed: main is in its except clause and *)
(* the rows of that team were not read.                                    *)
SwitchFailed == walk.pc = "top_error" /\ Len(walk.rows) = walk.idx - 1

(* The teams whose rows were read, in the order of reading.                *)
TeamsRead == [j \in 1..Len(walk.rows) |-> walk.rows[j][1]]

(* C33, corrected: a failure while switching to a team ends the run.  The  *)
(* teams are read in list order without a gap, so when the switch to team  *)
(* idx fails exactly the idx - 1 teams before it were read; from then on   *)
(* the loop takes no step, so no later team is read; and every run ends,   *)
(* with all teams read or in the except clause of main.                    *)
C33_TeamSwitchFailureEndsRun ==
    /\ [](/\ Len(walk.rows) <= walk.idx
          /\ \A j \in 1..Len(walk.rows) : TeamsRead[j] = walk.teams[j]
          /\ walk.pc = "done" => Len(walk.rows) = Len(walk.teams))
    /\ [][walk.pc = "top_error" => walk' = walk]_vars
    /\ <>(walk.pc \in {"done", "top_error"})

(* The switch to the first of two teams failed: nothing was read.          *)
C33_Witness ==
    /\ SwitchFailed /\ walk.idx = 1 /\ Len(walk.teams) = 2

(* C33 as stated: after a failed switch to one team the teams after it in  *)
(* the list still get their rows read.                                     *)
C33_RemainingTeamsStillProcessed ==
    SwitchFailed ~>
        \A j \in (walk.idx + 1)..Len(walk.teams) :
            \E r \in 1..Len(walk.rows) : TeamsRead[r] = walk.teams[j]

-----------------------------------------------------------------------------
(* Properties of call_with_retries (SpecRetries).                          *)

(* The way the call ended, "none" while it runs.                           *)
CallEnd ==
    IF limiter.pc = "ended" THEN limiter.results[Len(limiter.results)] ELSE "none"

(* C34: one call of call_with_retries makes one request per attempt and at *)
(* most MAX_RETRIES of them, and it always ends, in one of three ways: it  *)
(* returns a completion with content; it raises again the APIError that is *)
(* not a 5xx, with the request that gave it as the last one sent; or it    *)
(* raises RuntimeError once MAX_RETRIES attempts have failed.              *)
C34_AtMostFiveRequestsThreeEndings ==
    /\ [](/\ Len(limiter.sent) <= MAX_RETRIES
          /\ limiter.attempts <= MAX_RETRIES
          /\ Len(limiter.sent) \in {limiter.attempts - 1, limiter.attempts}
          /\ limiter.pc = "ended" =>
                /\ Len(limiter.results) = 1
                /\ Len(limiter.sent) = limiter.attempts
                /\ \/ CallEnd = "returned" /\ limiter.kind = "content"
                   \/ CallEnd = "raised" /\ limiter.kind = "client"
                   \/ /\ CallEnd = "failed"
                      /\ limiter.attempts = MAX_RETRIES
                      /\ limiter.left = 0)
    /\ [][limiter.kind' = "client" /\ limiter.kind # "client" =>
             limiter'.pc = "except" /\ limiter'.sent # limiter.sent]_vars
    /\ [][limiter.kind = "client" =>
             limiter'.sent = limiter.sent /\ limiter'.pc \in {"except", "ended"}]_vars
    /\ <>(limiter.pc = "ended")

(* Five requests were sent, each failed, and the call raised RuntimeError. *)
C34_Witness ==
    /\ CallEnd = "failed" /\ Len(limiter.sent) = MAX_RETRIES

-----------------------------------------------------------------------------
(* grok_generate: RateLimiter, call_grok and the part of                   *)
(* process_athlete_folder around them, for MaxCalls athletes in a row and  *)
(* up to LimiterFaults failing requests.  The clock counts seconds.        *)
DEFAULT_RPM == 2
GROK_MINUTE == 60
GROK_BACKOFF == 3
GROK_ATTEMPTS == 3

(* --rpm: the values the limiter is run with here (60 / rpm is whole).     *)
Rpms == {1, DEFAULT_RPM}

(* self.min_interval = 60.0 / max(1, rpm)                                  *)
MinInterval(rpm) == GROK_MINUTE \div Max(1, rpm)

(* The time a request takes to come back.                                  *)
GrokRequestTime == {0, 2}

(* sleep_for of RateLimiter.wait, zero when it returns without sleeping.   *)
GrokSleepFor(g) ==
    IF g.last_call <= 0 THEN 0
    ELSE Max(0, MinInterval(g.rpm) - (g.now - g.last_call))

GrokStart ==
    /\ grok \in [pc : {"wait"}, rpm : Rpms, now : {1}, last_call : {0},
                 sent : {<<>>}, attempt : {1}, backoff : {GROK_BACKOFF},
                 ncall : {1}, left : {LimiterFaults}, results : {<<>>}]
    /\ sel = NoSel /\ find = NoFind /\ walk = NoWalk /\ MoreIdle
    /\ bounce = NoBounce /\ worker = NoWorker /\ tree = NoTree
    /\ WaitIdle /\ FlowIdle /\ ModalIdle /\ CallIdle /\ CardIdle

GrokUnchanged ==
    UNCHANGED <<sel, find, walk, moreVars, bounce, worker, tree, waitVars, flowVars,
                modalVars, callVars, cardVars>>

(* rl.wait(), then backoff = 3 and the first pass of for attempt in        *)
(* range(1, 4).                                                            *)
GrokWait ==
    /\ grok.pc = "wait"
    /\ grok' = [grok EXCEPT !.now = @ + GrokSleepFor(grok),
                            !.attempt = 1, !.backoff = GROK_BACKOFF,
                            !.pc = "request"]
    /\ GrokUnchanged

(* client.chat.completions.create(...): the request is sent; it comes back *)
(* with a completion, which call_grok returns, or raises.                  *)
GrokRequest ==
    /\ grok.pc = "request"
    /\ \E ok \in BOOLEAN, d \in GrokRequestTime :
          /\ ~ok => grok.left > 0
          /\ grok' = [grok EXCEPT
                         !.sent = Append(@, grok.now),
                         !.now = @ + d,
                         !.left = IF ok THEN @ ELSE @ - 1,
                         !.results = IF ok THEN Append(@, "returned") ELSE @,
                         !.pc = IF ok THEN "stamp" ELSE "except"]
    /\ GrokUnchanged

(* except Exception: time.sleep(backoff); backoff *= 2; after the last     *)
(* pass, raise RuntimeError.                                               *)
GrokExcept ==
    /\ grok.pc = "except"
    /\ grok' = [grok EXCEPT
                   !.now = @ + grok.backoff,
                   !.backoff = @ * 2,
                   !.attempt = @ + 1,
                   !.results = IF grok.attempt < GROK_ATTEMPTS THEN @
                               ELSE Append(@, "failed"),
                   !.pc = IF grok.attempt < GROK_ATTEMPTS THEN "request"
                          ELSE "stamp"]
    /\ GrokUnchanged

(* finally: rl.stamp()                                                     *)
GrokStamp ==
    /\ grok.pc = "stamp"
    /\ grok' = [grok EXCEPT !.last_call = grok.now, !.pc = "ended"]
    /\ GrokUnchanged

(* The athlete loop of main calls process_athlete_folder for the next      *)
(* athlete, whether the call before returned or raised.                    *)
GrokNextCall ==
    /\ grok.pc = "ended" /\ grok.ncall < MaxCalls
    /\ grok' = [grok EXCEPT !.ncall = @ + 1, !.pc = "wait"]
    /\ GrokUnchanged

GrokNext ==
    \/ GrokWait
    \/ GrokRequest
    \/ GrokExcept
    \/ GrokStamp
    \/ GrokNextCall

SpecGrok == GrokStart /\ [][GrokNext]_vars

(* Properties of the Grok rate limiter (SpecGrok).                         *)

(* The requests sent in the minute that starts with request i.             *)
InWindowFrom(i) ==
    {j \in i..Len(grok.sent) : grok.sent[j] - grok.sent[i] < GROK_MINUTE}

(* C35 as stated: no more than rpm chat-completion requests are sent       *)
(* within any 60-second window, whatever the athletes and the failures.    *)
C35_AtMostRpmRequestsPerWindow ==
    \A i \in 1..Len(grok.sent) : Cardinality(InWindowFrom(i)) <= grok.rpm

-----------------------------------------------------------------------------
(* src/src/main.py: one run of the Worker thread that start_processing     *)
(* started, and the GUI thread beside it: the slot on_finished and the     *)
(* closing of the window (closeEvent: stop(), then wait()).  The two       *)
(* threads' steps interleave freely; a signal emitted by the worker is     *)
(* queued for the GUI thread.                                              *)
Stages == <<"scrape", "cleanup", "chatgpt", "grok">>
NumStages == Len(Stages)

(* progress_updated.emit(...) after stage k.                               *)
ProgressOf(k) == 25 * k

(* What a stage's run_... call comes to: it returns True, returns False,   *)
(* or raises.                                                              *)
StageOutcomes == {"true", "false", "raised"}

(* A worker that emits the progress of a failed stage and goes on.         *)
AfterStageFailureGoOn == "progress"

(* raise Exception(...) out of the stage's try, taken by the except of     *)
(* run.                                                                    *)
AfterStageFailure == "except"

(* A worker whose checkpoints never see the stop.                          *)
StoppedNever(is_running) == FALSE

(* if not self.is_running: return                                          *)
Stopped(is_running) == ~is_running

WorkerStart ==
    /\ worker = [pc |-> "check_dir", stage |-> 0, is_running |-> TRUE,
                 started |-> <<>>, succeeded |-> {}, failed |-> 0,
                 progress |-> <<>>, finished |-> <<>>, errors |-> 0,
                 delivered |-> 0, button |-> FALSE, shown |-> 0, bar |-> 0,
                 gui |-> "open", stops |-> 0,
                 stop_seen |-> FALSE]
    /\ sel = NoSel /\ find = NoFind /\ walk = NoWalk /\ MoreIdle
    /\ bounce = NoBounce /\ grok = NoGrok /\ tree = NoTree
    /\ WaitIdle /\ FlowIdle /\ ModalIdle /\ CallIdle /\ CardIdle

WorkerUnchanged ==
    UNCHANGED <<sel, find, walk, moreVars, bounce, grok, tree, waitVars, flowVars,
                modalVars, callVars, cardVars>>

(* if not data_path.exists() or not data_path.is_dir(): raise              *)
WorkerCheckDir ==
    /\ worker.pc = "check_dir"
    /\ \E found \in BOOLEAN :
          worker' = [worker EXCEPT !.pc = IF found THEN "stage_start" ELSE "except",
                                   !.stage = IF found THEN 1 ELSE 0]
    /\ WorkerUnchanged

(* log_message.emit("INFO", "Starting ..."); the call of the stage.        *)
WorkerStageStart ==
    /\ worker.pc = "stage_start"
    /\ worker' = [worker EXCEPT !.started = Append(@, worker.stage),
                                !.pc = "stage_run"]
    /\ WorkerUnchanged

(* success = run_...(...); if not success: raise; except: raise            *)
WorkerStageEnd ==
    /\ worker.pc = "stage_run"
    /\ \E o \in StageOutcomes :
          worker' = IF o = "true"
                    THEN [worker EXCEPT !.succeeded = @ \cup {worker.stage},
                                        !.pc = "progress"]
                    ELSE [worker EXCEPT !.failed = worker.stage,
                                        !.pc = AfterStageFailure]
    /\ WorkerUnchanged

(* self.progress_updated.emit(25 | 50 | 75 | 100)                          *)
WorkerProgress ==
    /\ worker.pc = "progress"
    /\ worker' = [worker EXCEPT !.progress = Append(@, ProgressOf(worker.stage)),
                                !.pc = IF worker.stage < NumStages THEN "checkpoint"
                                       ELSE "finish"]
    /\ WorkerUnchanged

(* if not self.is_running: return                                          *)
WorkerCheckpoint ==
    /\ worker.pc = "checkpoint"
    /\ worker' = IF Stopped(worker.is_running)
                 THEN [worker EXCEPT !.pc = "returned", !.stop_seen = TRUE]
                 ELSE [worker EXCEPT !.pc = "stage_start", !.stage = @ + 1]
    /\ WorkerUnchanged

(* self.finished.emit(True)                                                *)
WorkerFinish ==
    /\ worker.pc = "finish"
    /\ worker' = [worker EXCEPT !.finished = Append(@, TRUE), !.pc = "returned"]
    /\ WorkerUnchanged

(* except Exception as e: log_message.emit("ERROR", ...);                  *)
(* self.finished.emit(False)                                               *)
WorkerExcept ==
    /\ worker.pc = "except"
    /\ worker' = [worker EXCEPT !.errors = @ + 1,
                                !.finished = Append(@, FALSE),
                                !.pc = "returned"]
    /\ WorkerUnchanged

(* The GUI thread takes a queued progress signal: update_progress.         *)
GuiUpdateProgress ==
    /\ worker.gui = "open"
    /\ worker.shown < Len(worker.progress)
    /\ worker' = [worker EXCEPT !.shown = @ + 1,
                                !.bar = worker.progress[worker.shown + 1]]
    /\ WorkerUnchanged

(* The GUI thread takes a queued finished signal, after the signals queued *)
(* before it: on_finished.                                                 *)
GuiOnFinished ==
    /\ worker.gui = "open"
    /\ worker.delivered < Len(worker.finished)
    /\ worker.shown = Len(worker.progress)
    /\ worker' = [worker EXCEPT !.delivered = @ + 1, !.button = TRUE]
    /\ WorkerUnchanged

(* closeEvent: if self.worker and self.worker.isRunning(): stop(), which   *)
(* sets is_running = False; then wait().                                   *)
GuiCloseEvent ==
    /\ worker.gui = "open"
    /\ worker' = IF worker.pc # "returned"
                 THEN [worker EXCEPT !.is_running = FALSE, !.stops = @ + 1,
                                     !.gui = "waiting"]
                 ELSE [worker EXCEPT !.gui = "closed"]
    /\ WorkerUnchanged

(* self.worker.wait() returns once run has returned; event.accept().       *)
GuiWaitReturns ==
    /\ worker.gui = "waiting" /\ worker.pc = "returned"
    /\ worker' = [worker EXCEPT !.gui = "closed"]
    /\ WorkerUnchanged

RunNext ==
    \/ WorkerCheckDir
    \/ WorkerStageStart
    \/ WorkerStageEnd
    \/ WorkerProgress
    \/ WorkerCheckpoint
    \/ WorkerFinish
    \/ WorkerExcept

WorkerNext ==
    \/ RunNext
    \/ GuiUpdateProgress
    \/ GuiOnFinished
    \/ GuiCloseEvent
    \/ GuiWaitReturns

(* The thread is scheduled as long as run has a step to take: every stage  *)
(* call comes back.  The GUI thread is under no obligation.                *)
SpecWorker == WorkerStart /\ [][WorkerNext]_vars /\ WF_vars(RunNext)

(* Properties of the GUI worker (SpecWorker).                              *)

(* C36: the stages are started in the order scrape, cleanup, ChatGPT,      *)
(* Grok, each at most once and only when every stage before it reported    *)
(* success; the progress emitted is 25, 50, 75, 100 in that order, the     *)
(* k-th only after stage k succeeded; and once a stage has failed no later *)
(* stage is started, no progress is emitted for it, and the run ends with  *)
(* finished(False).                                                        *)
C36_StagesInOrderEachAfterSuccess ==
    /\ \A j \in 1..Len(worker.started) :
          /\ worker.started[j] = j
          /\ \A i \in 1..(j - 1) : i \in worker.succeeded
    /\ \A j \in 1..Len(worker.progress) :
          /\ worker.progress[j] = ProgressOf(j)
          /\ j \in worker.succeeded
    /\ \A k \in worker.succeeded : k \in 1..Len(worker.started)
    /\ worker.failed # 0 =>
          /\ Len(worker.started) = worker.failed
          /\ worker.failed \notin worker.succeeded
          /\ Len(worker.progress) = worker.failed - 1
          /\ worker.pc \in {"except", "returned"}
          /\ worker.pc = "returned" => worker.finished = <<FALSE>>
    /\ TRUE \in {worker.finished[j] : j \in 1..Len(worker.finished)} =>
          worker.succeeded = 1..NumStages

(* The third stage failed after two that succeeded: progress stopped at    *)
(* 50, the fourth stage never started, and finished(False) was emitted.    *)
C36_Witness ==
    /\ worker.pc = "returned" /\ worker.failed = 3
    /\ worker.progress = <<25, 50>> /\ worker.finished = <<FALSE>>

(* C37, corrected: a run emits finished at most once, and always ends.  It *)
(* has emitted it exactly once when it ends, except when it ends at one of *)
(* the checkpoints after stage 1, 2 or 3 because stop() had been called:   *)
(* then it ends without emitting finished, and the start button stays      *)
(* disabled.  A stop() that comes after the last checkpoint, or before a   *)
(* stage that then fails, changes nothing.  The button is enabled only by  *)
(* a delivered finished signal.                                            *)
C37_FinishedOnceUnlessStoppedAtCheckpoint ==
    /\ [](/\ Len(worker.finished) <= 1
          /\ worker.pc = "returned" =>
                (Len(worker.finished) = 0 <=> worker.stop_seen)
          /\ worker.stop_seen =>
                /\ worker.stops > 0 /\ ~worker.is_running
                /\ worker.stage < NumStages /\ worker.stage \in worker.succeeded
                /\ ~worker.button
          /\ worker.button => worker.delivered = 1
          /\ worker.delivered <= Len(worker.finished))
    /\ [][worker.pc = "checkpoint" /\ worker'.pc # "checkpoint" =>
             IF worker.is_running THEN worker'.pc = "stage_start"
             ELSE worker'.pc = "returned" /\ worker'.finished = <<>>]_vars
    /\ <>(worker.pc = "returned")

(* The window was closed during the first stage, the stage succeeded, and  *)
(* the run ended at its checkpoint without a finished signal.              *)
C37_Witness ==
    /\ worker.pc = "returned" /\ worker.stop_seen /\ worker.stage = 1
    /\ worker.finished = <<>> /\ worker.gui = "closed"

(* C37 as stated: every run that has ended emitted finished exactly once,  *)
(* whenever stop() was called.                                             *)
C37_FinishedExactlyOnce ==
    worker.pc = "returned" => Len(worker.finished) = 1

-----------------------------------------------------------------------------
(* src/src/scripts/cleanup_vald_images.py: run_cleanup on a data root, one *)
(* folder per step.  The root is a set of paths below it, each a sequence  *)
(* of names, closed under parents; folders and files are told apart by     *)
(* their names.  Every unlink and rmdir either succeeds or raises.  A dry  *)
(* run may be followed by a real run with the same options.                *)
MaxEntries == 2

TeamDirs == {"Aa", "b"}
AthleteDirs == {"Ann", "Bo"}
FileNames == {"Nordic_001.png", "Nordic_002.png", "Analysis.md"}

TARGET_FILENAMES ==
    <<"Countermovement_Jump_001.png", "20yd_Sprint_001.png", "5-0-5_Drill_001.png",
      "Nordic_001.png">>

VALID_IMAGE_EXTS == {".png", ".jpg", ".jpeg", ".webp"}

(* p.suffix.lower(), on the names that occur.                              *)
Suffix(name) ==
    CASE name \in {"Nordic_001.png", "Nordic_002.png"} -> ".png"
      [] name = "Analysis.md" -> ".md"
      [] OTHER -> ""

(* team_dir.name as characters, for the comparison with --teams.           *)
Spelling(team) ==
    CASE team = "Aa" -> <<"A", "a">>
      [] team = "b" -> <<"b">>
      [] OTHER -> <<>>

(* --teams: none, or one entry that differs from a folder's name in case   *)
(* and in blanks around it.                                                *)
TeamsFilters == {<<>>, << <<" ", "a", "A">> >>}

(* {t.strip().lower() for t in teams_filter if t.strip()}                  *)
FilterNorm(teams_filter) ==
    {LowerAll(Strip(teams_filter[i])) :
        i \in {j \in 1..Len(teams_filter) : Strip(teams_filter[j]) # <<>>}}

(* if teams_filter_norm and team_name.lower() not in teams_filter_norm     *)
FilteredOut(team, teams_filter) ==
    /\ FilterNorm(teams_filter) # {}
    /\ LowerAll(Spelling(team)) \notin FilterNorm(teams_filter)

(* The paths a root may hold: team folders, athlete folders in them, files *)
(* in athlete folders and files directly in team folders.                  *)
Universe ==
    {<<t>> : t \in TeamDirs} \cup
    {<<t, a>> : t \in TeamDirs, a \in AthleteDirs} \cup
    {<<t, a, f>> : t \in TeamDirs, a \in AthleteDirs, f \in FileNames} \cup
    {<<t, f>> : t \in TeamDirs, f \in {"Nordic_001.png", "Analysis.md"}}

RECURSIVE SubsetsUpTo(_, _)
SubsetsUpTo(S, n) ==
    IF n = 0 THEN {{}}
    ELSE LET P == SubsetsUpTo(S, n - 1)
         IN  P \cup {T \cup {x} : T \in P, x \in S}

(* A set of paths with the folders that hold them.                         *)
WithParents(S) == S \cup UNION {{SubSeq(p, 1, k) : k \in 1..(Len(p) - 1)} : p \in S}

IsFile(p) == p[Len(p)] \in FileNames
IsFolder(p) == ~IsFile(p)

(* The entries directly in folder d of file system fs (d = <<>>: the root) *)
Entries(fs, d) ==
    {p \in fs : Len(p) = Len(d) + 1 /\ SubSeq(p, 1, Len(d)) = d}

(* for child in d.iterdir(): if child.is_dir()                             *)
iter_dirs(fs, d) == {p \in Entries(fs, d) : IsFolder(p)}

(* is_dir_completely_empty                                                 *)
is_dir_completely_empty(fs, d) == Entries(fs, d) = {}

(* folder_directly_contains_images                                         *)
folder_directly_contains_images(fs, d) ==
    \E p \in Entries(fs, d) : IsFile(p) /\ Suffix(p[Len(p)]) \in VALID_IMAGE_EXTS

(* A cleanup for which every file name is a target.                        *)
IsTargetAny(name) == TRUE

(* for filename in TARGET_FILENAMES                                        *)
IsTarget(name) == \E i \in 1..Len(TARGET_FILENAMES) : TARGET_FILENAMES[i] = name

(* The target files that exist in folder d.                                *)
TargetsIn(fs, d) == {p \in Entries(fs, d) : IsFile(p) /\ IsTarget(p[Len(p)])}

NoReport == [ran |-> FALSE, files |-> {}, folders |-> {}, unchanged |-> FALSE]

CleanupInputs(trees) ==
    [pc : {"check_root"}, fs : trees, before : trees, root_exists : BOOLEAN,
     dry_run : BOOLEAN, prune_empty_teams : BOOLEAN, teams_filter : TeamsFilters,
     team : {<<>>}, teams : {{}}, athletes : {{}}, direct : {{}},
     deleted : {{}}, removed : {{}}, asTeam : {{}}, asAthlete : {{}},
     failures : {0}, ret : {"none"}, dry_report : {NoReport}]

CleanupIdleElsewhere ==
    /\ sel = NoSel /\ find = NoFind /\ walk = NoWalk /\ MoreIdle
    /\ bounce = NoBounce /\ grok = NoGrok /\ worker = NoWorker
    /\ WaitIdle /\ FlowIdle /\ ModalIdle /\ CallIdle /\ CardIdle

CleanupStart ==
    /\ \E S \in SubsetsUpTo(Universe, MaxEntries) : tree \in CleanupInputs({WithParents(S)})
    /\ ~tree.root_exists => tree.fs = {}
    /\ CleanupIdleElsewhere

CleanupUnchanged ==
    UNCHANGED <<sel, find, walk, moreVars, bounce, grok, worker, waitVars, flowVars,
                modalVars, callVars, cardVars>>

(* if not root.exists() or not root.is_dir(): return False; else the team  *)
(* loop begins over iter_team_dirs(root).                                  *)
CleanCheckRoot ==
    /\ tree.pc = "check_root"
    /\ tree' = IF ~tree.root_exists
               THEN [tree EXCEPT !.pc = "done", !.ret = "false"]
               ELSE [tree EXCEPT !.pc = "teams", !.teams = iter_dirs(tree.fs, <<>>)]
    /\ CleanupUnchanged

(* The next team_dir of the loop: skipped when it directly contains images *)
(* or is filtered out, else its athlete loop begins.                       *)
CleanTeam ==
    /\ tree.pc = "teams"
    /\ \E t \in tree.teams :
          tree' = IF \/ folder_directly_contains_images(tree.fs, t)
                     \/ FilteredOut(t[1], tree.teams_filter)
                  THEN [tree EXCEPT !.teams = @ \ {t}]
                  ELSE [tree EXCEPT !.teams = @ \ {t}, !.team = t,
                                    !.asTeam = @ \cup {t},
                                    !.athletes = iter_dirs(tree.fs, t),
                                    !.pc = "athletes"]
    /\ CleanupUnchanged

(* delete_targets_in_athlete_dir(d) and the removal of d when it is then   *)
(* completely empty: the unlinks in fails and the rmdir (when ~rmdir_ok)   *)
(* raise, which is logged as a skip.  A dry run logs and counts, and       *)
(* changes nothing.                                                        *)
AthleteDir(tr, d, fails, rmdir_ok) ==
    LET targets == TargetsIn(tr.fs, d)
        gone == IF tr.dry_run THEN {} ELSE targets \ fails
        counted == IF tr.dry_run THEN targets ELSE targets \ fails
        fs1 == tr.fs \ gone
        empty == is_dir_completely_empty(fs1, d)
        rm == empty /\ (tr.dry_run \/ rmdir_ok)
    IN  [tr EXCEPT !.fs = IF rm /\ ~tr.dry_run THEN fs1 \ {d} ELSE fs1,
                   !.deleted = @ \cup counted,
                   !.removed = IF rm THEN @ \cup {d} ELSE @,
                   !.asAthlete = @ \cup {d},
                   !.failures = @ + Cardinality(fails)
                                  + (IF empty /\ ~rm THEN 1 ELSE 0)]

(* The failures a real run can meet in folder d: any of the unlinks.       *)
Fails(tr, d) == IF tr.dry_run THEN {{}} ELSE SUBSET TargetsIn(tr.fs, d)

(* for athlete_dir in iter_athlete_dirs(team_dir)                          *)
CleanAthlete ==
    /\ tree.pc = "athletes"
    /\ \E d \in tree.athletes, rmdir_ok \in BOOLEAN :
       \E fails \in Fails(tree, d) :
          tree' = [AthleteDir(tree, d, fails, rmdir_ok) EXCEPT !.athletes = @ \ {d}]
    /\ CleanupUnchanged

(* if prune_empty_teams: the team folder is removed when completely empty. *)
CleanPruneTeam ==
    /\ tree.pc = "athletes" /\ tree.athletes = {}
    /\ \E rmdir_ok \in BOOLEAN :
          LET empty == is_dir_completely_empty(tree.fs, tree.team)
              rm == tree.prune_empty_teams /\ empty /\ (tree.dry_run \/ rmdir_ok)
          IN  tree' = [tree EXCEPT
                          !.fs = IF rm /\ ~tree.dry_run THEN @ \ {tree.team} ELSE @,
                          !.removed = IF rm THEN @ \cup {tree.team} ELSE @,
                          !.failures = IF tree.prune_empty_teams /\ empty /\ ~rm
                                       THEN @ + 1 ELSE @,
                          !.team = <<>>,
                          !.pc = "teams"]
    /\ CleanupUnchanged

(* direct_athletes = [p for p in root.iterdir() if p.is_dir() and          *)
(* folder_directly_contains_images(p)], once the team loop is over.        *)
CleanListDirect ==
    /\ tree.pc = "teams" /\ tree.teams = {}
    /\ tree' = [tree EXCEPT
                   !.direct = {p \in iter_dirs(tree.fs, <<>>) :
                                 folder_directly_contains_images(tree.fs, p)},
                   !.pc = "direct"]
    /\ CleanupUnchanged

(* for athlete_dir in direct_athletes                                      *)
CleanDirect ==
    /\ tree.pc = "direct"
    /\ \E d \in tree.direct, rmdir_ok \in BOOLEAN :
       \E fails \in Fails(tree, d) :
          tree' = [AthleteDir(tree, d, fails, rmdir_ok) EXCEPT !.direct = @ \ {d}]
    /\ CleanupUnchanged

(* The summary line; return True.                                          *)
CleanSummary ==
    /\ tree.pc = "direct" /\ tree.direct = {}
    /\ tree' = [tree EXCEPT !.pc = "done", !.ret = "true"]
    /\ CleanupUnchanged

(* After a dry run (main with --dry-run) the same root is cleaned for      *)
(* real, with the same options.                                            *)
CleanRunForReal ==
    /\ tree.pc = "done" /\ tree.dry_run /\ tree.ret = "true"
    /\ tree' = [tree EXCEPT
                   !.dry_report = [ran |-> TRUE, files |-> tree.deleted,
                                   folders |-> tree.removed,
                                   unchanged |-> tree.fs = tree.before],
                   !.dry_run = FALSE, !.pc = "check_root", !.before = tree.fs,
                   !.deleted = {}, !.removed = {}, !.asTeam = {}, !.asAthlete = {},
                   !.ret = "none"]
    /\ CleanupUnchanged

CleanupNext ==
    \/ CleanCheckRoot
    \/ CleanTeam
    \/ CleanAthlete
    \/ CleanPruneTeam
    \/ CleanListDirect
    \/ CleanDirect
    \/ CleanSummary
    \/ CleanRunForReal

SpecCleanup == CleanupStart /\ [][CleanupNext]_vars


(* What run_cleanup takes for an athlete folder: a folder inside a team    *)
(* folder, or a folder directly under the root that directly holds an      *)
(* image (the layout without teams).                                       *)
AthleteFolder(fs, d) ==
    \/ Len(d) = 2
    \/ Len(d) = 1 /\ folder_directly_contains_images(fs, d)

Parent(p) == SubSeq(p, 1, Len(p) - 1)

TargetNames == {TARGET_FILENAMES[i] : i \in 1..Len(TARGET_FILENAMES)}

(* The state of the root compared with the root the run began on.          *)
CleanupFrame ==
    LET gone == tree.before \ tree.fs
    IN  /\ tree.fs \subseteq tree.before
        /\ tree.dry_run => tree.fs = tree.before
        /\ \A p \in gone :
              /\ IsFile(p) =>
                    /\ p[Len(p)] \in TargetNames
                    /\ AthleteFolder(tree.before, Parent(p))
              /\ IsFolder(p) =>
                    /\ Entries(tree.fs, p) = {}
                    /\ Len(p) = 1 =>
                          tree.prune_empty_teams \/ AthleteFolder(tree.before, p)
        /\ \A p \in tree.fs : Len(p) > 1 => Parent(p) \in tree.fs

(* A folder goes only in a step that leaves nothing of it behind, and what *)
(* it held until then are target files of its own that the step deleted.   *)
RemovedWhenEmpty ==
    \A d \in tree.fs \ tree'.fs :
        IsFolder(d) =>
           /\ Entries(tree'.fs, d) = {}
           /\ \A q \in Entries(tree.fs, d) : IsFile(q) /\ q[Len(q)] \in TargetNames

(* C38: run_cleanup deletes only files named as one of the four targets    *)
(* that lie directly in an athlete folder, removes only folders that are   *)
(* completely empty when removed (a team folder only under                 *)
(* prune_empty_teams), creates nothing, and leaves every other file and    *)
(* every folder that still holds something in place; a dry run changes     *)
(* nothing at all.                                                         *)
C38_DeletesOnlyTargetsRemovesOnlyEmpty ==
    /\ []CleanupFrame
    /\ [][RemovedWhenEmpty]_vars

(* A real run has ended that deleted a target file, removed the folder it  *)
(* emptied, and kept a folder with a file that is no target.               *)
C38_Witness ==
    /\ tree.pc = "done" /\ ~tree.dry_run /\ tree.ret = "true"
    /\ \E p \in tree.before \ tree.fs : IsFile(p)
    /\ \E d \in tree.before \ tree.fs : IsFolder(d)
    /\ \E p \in tree.fs : IsFile(p) /\ p[Len(p)] \notin TargetNames


(* C39: a dry run leaves the root unchanged, and the files and folders it  *)
(* reports as to be deleted or removed are exactly those that a real run   *)
(* on the same root, with the same options and with no unlink or rmdir     *)
(* failing, deletes and removes.                                           *)
C39_DryRunReportsWhatRealRunRemoves ==
    tree.pc = "done" /\ tree.dry_report.ran /\ tree.failures = 0 =>
        /\ tree.dry_report.unchanged
        /\ tree.dry_report.files = tree.deleted
        /\ tree.dry_report.folders = tree.removed

(* The part of C39 that the code keeps: the dry run changes nothing and    *)
(* reports exactly the files that the real run deletes.                    *)
DryRunFilesAgree ==
    tree.pc = "done" /\ tree.dry_report.ran /\ tree.failures = 0 =>
        /\ tree.dry_report.unchanged
        /\ tree.dry_report.files = tree.deleted
        /\ tree.dry_report.folders \subseteq tree.removed

-----------------------------------------------------------------------------
(* src/scrape_vald.py run_cleanup and src/cleanup_vald_images.py           *)
(* remove_targets, on the root as the scraper leaves it: athlete folders   *)
(* <root>/<team>/<athlete> holding screenshots <prefix>_<idx>.png.  The    *)
(* script carries its own list of the same four target names.  The root   *)
(* may also hold folders of the layout without teams, <root>/<athlete>,    *)
(* with a screenshot directly in them.                                     *)
Earlier == {<<t, "Nordic_001.png">> : t \in TeamDirs}

Written ==
    {<<t, a>> : t \in TeamDirs, a \in AthleteDirs} \cup
    {<<t, a, f>> : t \in TeamDirs, a \in AthleteDirs,
                   f \in {"Nordic_001.png", "Nordic_002.png"}}

StandaloneStart ==
    /\ \E S \in SubsetsUpTo(Written \cup Earlier, MaxEntries), found \in BOOLEAN :
          tree = [pc |-> "run_cleanup", fs |-> WithParents(S), before |-> WithParents(S),
                  script_exists |-> found, children |-> {}, deleted |-> {},
                  failures |-> 0, ran |-> FALSE]
    /\ CleanupIdleElsewhere

(* scrape_vald.run_cleanup: the script next to the scraper is run with no  *)
(* arguments, hence on its default root, the scraper's OUTPUT_DIR; it is   *)
(* skipped when the script is not there.                                   *)
ScraperRunCleanup ==
    /\ tree.pc = "run_cleanup"
    /\ tree' = [tree EXCEPT !.pc = IF tree.script_exists THEN "remove_targets"
                                   ELSE "finished"]
    /\ CleanupUnchanged

(* remove_targets: for child in root.iterdir(): if not child.is_dir():     *)
(* continue.  The root exists: the scraper has written into it.            *)
RemoveTargetsBegin ==
    /\ tree.pc = "remove_targets"
    /\ tree' = [tree EXCEPT !.pc = "children", !.children = iter_dirs(tree.fs, <<>>)]
    /\ CleanupUnchanged

(* for filename in TARGET_FILENAMES: path = child / filename; unlink it if *)
(* it exists; the unlinks in fails raise and are logged as skipped.        *)
RemoveTargetsChild ==
    /\ tree.pc = "children"
    /\ \E child \in tree.children :
       \E fails \in SUBSET TargetsIn(tree.fs, child) :
          LET gone == TargetsIn(tree.fs, child) \ fails
          IN  tree' = [tree EXCEPT !.children = @ \ {child},
                                   !.fs = @ \ gone,
                                   !.deleted = @ \cup gone,
                                   !.failures = @ + Cardinality(fails)]
    /\ CleanupUnchanged

(* print("Done. Folders scanned: ... | Files deleted: ...")                *)
RemoveTargetsDone ==
    /\ tree.pc = "children" /\ tree.children = {}
    /\ tree' = [tree EXCEPT !.pc = "finished", !.ran = TRUE]
    /\ CleanupUnchanged

StandaloneNext ==
    \/ ScraperRunCleanup
    \/ RemoveTargetsBegin
    \/ RemoveTargetsChild
    \/ RemoveTargetsDone

SpecStandalone == StandaloneStart /\ [][StandaloneNext]_vars

(* C40: once the scraper's run has ended with the cleanup script run and   *)
(* no unlink failed, no athlete folder <root>/<team>/<athlete> still holds *)
(* one of the four target files.                                           *)
C40_NoTargetLeftInAthleteFolders ==
    tree.pc = "finished" /\ tree.ran /\ tree.failures = 0 =>
        \A p \in tree.fs : Len(p) = 3 => p[3] \notin TargetNames

(* What the script does to the folders <root>/<team>/<athlete>: nothing.   *)
StandaloneLeavesTeamsLayoutAlone ==
    {p \in tree.fs : Len(p) = 3} = {p \in tree.before : Len(p) = 3}

====
